---- MODULE Spec2Model ----
(***************************************************************************)
(* A model of the chunked column store and its table scan operator.        *)
(*                                                                         *)
(* Tables live in a heap (the sequence "tables"); a table is known by its  *)
(* index in the heap, which stands for the shared_ptr<Table> the program   *)
(* passes around.  Chunk ids, chunk offsets, column ids and value ids are  *)
(* counted from 0 as in the program; At(s, i) reads the i-th element of a  *)
(* vector.                                                                 *)
(***************************************************************************)
EXTENDS Integers, Sequences, FiniteSets, TLC

VARIABLES
  tables,     \* the heap of tables: base tables and the outputs of scans
  lastScan,   \* what the most recent TableScan was given and how it ended
  history,    \* per table: the operator input it came from, and the rows expected in it
  context,    \* a TableScanContext handed to the dictionary handlers
  positions,  \* the PosList the dictionary handlers filled for that context
  lastCall,   \* the most recent call of the storage interface: its arguments, the
              \* table it found and whether it returned or threw
  storage_manager  \* the _tables map of the StorageManager instance: name -> table

vars == <<tables, lastScan, history, context, positions, lastCall, storage_manager>>

----------------------------------------------------------------------------
(* Bounds of the model *)

MaxVal == 3        \* column values are the odd numbers up to MaxVal
MaxRows == 3       \* rows appended to a table
ChunkSize == 2     \* the chunk_size the table under scan is constructed with
MaxScans == 2      \* successful scans (result tables) in the heap
MaxEntries == 2    \* entries of an attribute vector handed to the fast path
MaxTypedRows == 1  \* rows of the table scanned with values of every type
MaxPartRows == 2   \* rows of each of the two tables a composed table refers to
MaxCapacity == 2   \* the largest chunk_size a table is constructed with
MaxColumns == 2    \* columns added to a table
MaxTableRows == 3  \* rows of a table the storage interface is called on
MaxColumnValues == 4  \* values of a short column that gets compressed
MaxColumnValue == 3   \* the largest value of such a column
MaxUniqueCount == 300 \* dictionary sizes an attribute vector is fitted to, from 0 on
MaxNear == 3          \* and as far around UINT8_MAX and UINT16_MAX

(* Program constants *)

UINT8_MAX == 255        \* std::numeric_limits<uint8_t>::max()
UINT16_MAX == 65535     \* std::numeric_limits<uint16_t>::max()

----------------------------------------------------------------------------
(* Vectors *)

At(s, i) == s[i + 1]

InRange(s, i) == i >= 0 /\ i < Len(s)

Last(s) == s[Len(s)]

Range(s) == {s[i] : i \in 1..Len(s)}

----------------------------------------------------------------------------
(* types.hpp, all_type_variant.hpp *)

ElementTypes == {"int", "long", "float", "double", "string"}

ScanTypes == {"OpEquals", "OpNotEquals", "OpLessThan", "OpLessThanEquals",
              "OpGreaterThan", "OpGreaterThanEquals"}

\* An AllTypeVariant: the tag of the type it holds and the value.
Variant(t, v) == [type |-> t, val |-> v]

\* type_cast<T>(variant) of a variant that holds a T: the value it holds.  The
\* rows appended hold the type of their column, and execute casts the search
\* value after it has compared the types.
type_cast(T, variant) == variant.val

\* The string values of the model are the decimal texts of its numbers, and
\* NoNumber is a text that is not the text of a number.
NoNumber == -1

\* type_cast<T>(variant) returns a value: it throws for a text that is no number
\* when T is a numeric type.
can_type_cast(T, variant) ==
  ~(variant.type = "string" /\ T # "string" /\ variant.val = NoNumber)

----------------------------------------------------------------------------
(* utils/assert.hpp *)

\* DebugAssert(expr, msg): TRUE when execution goes on behind it.  A debug build
\* throws std::logic_error when expr is false; a release build compiles the
\* assertion out.
DebugAssert(IS_DEBUG, expr) == ~IS_DEBUG \/ expr

RowID(chunk_id, chunk_offset) == [chunk_id |-> chunk_id, chunk_offset |-> chunk_offset]

(* A ValueID is an unsigned 32-bit number, kept as its two 16-bit halves. *)

\* static_cast<ValueID>(n), for the n this model counts up to
ValueID(n) == [hi |-> n \div (UINT16_MAX + 1), lo |-> n % (UINT16_MAX + 1)]

\* the index a ValueID stands for, when it is used to index a vector
ValueID_index(id) == id.hi * (UINT16_MAX + 1) + id.lo

ValueID_less(a, b) == a.hi < b.hi \/ (a.hi = b.hi /\ a.lo < b.lo)

\* constexpr ValueID INVALID_VALUE_ID{std::numeric_limits<ValueID::base_type>::max()}
INVALID_VALUE_ID == [hi |-> UINT16_MAX, lo |-> UINT16_MAX]

----------------------------------------------------------------------------
(* fitted_attribute_vector.hpp *)

\* FittedAttributeVector<uintX_t>(size): size zero-initialised entries.
FittedAttributeVector(width, size) ==
  [width |-> width, values |-> [i \in 1..size |-> ValueID(0)]]

\* static_cast<uintX_t>(value_id): the low width bytes of the ValueID
Narrow(width, value_id) ==
  CASE width = 1 -> [hi |-> 0, lo |-> value_id.lo % (UINT8_MAX + 1)]
    [] width = 2 -> [hi |-> 0, lo |-> value_id.lo]
    [] width = 4 -> value_id

\* _values.at(i) returns for the positions of the vector and throws
\* std::out_of_range for every other i (size_t i is not negative)
vector_at(values, i) == i < Len(values)

\* width(): sizeof(uintX_t)
AttributeVector_width(av) == av.width

\* A variant of set that stores the ValueID as it is
AttributeVector_set_wide(av, i, value_id) ==
  [av EXCEPT !.values[i + 1] = value_id]

AttributeVector_size(av) == Len(av.values)

\* get(i): _values.at(i), widened to a ValueID.
AttributeVector_get(av, i) == At(av.values, i)

\* set(i, value_id): _values.at(i) = static_cast<uintX_t>(value_id)
AttributeVector_set(av, i, value_id) ==
  [av EXCEPT !.values[i + 1] = Narrow(av.width, value_id)]

----------------------------------------------------------------------------
(* value_column.cpp *)

ValueColumn(T) == [kind |-> "ValueColumn", type |-> T, values |-> <<>>]

\* ValueColumn<T>::append
ValueColumn_append(column, val) ==
  [column EXCEPT !.values = Append(@, type_cast(column.type, val))]

----------------------------------------------------------------------------
(* dictionary_column.hpp *)

\* std::sort: the place an element takes in the sorted vector, behind the
\* smaller elements and the equal ones that stand before it
SortedPlace(s, i) ==
  Cardinality({j \in 1..Len(s) : s[j] < s[i] \/ (s[j] = s[i] /\ j < i)}) + 1

Sort(s) ==
  LET placed == {<<SortedPlace(s, i), s[i]>> : i \in 1..Len(s)}
  IN SubSeq([p \in 1..Len(s) |-> (CHOOSE e \in placed : e[1] = p)[2]], 1, Len(s))

\* A std::unique that drops nothing
Unique_kept(s) == s

\* std::unique: drops every element equal to its predecessor
Unique(s) ==
  LET kept == {i \in 1..Len(s) : i = 1 \/ s[i] # s[i - 1]}
      placed == {<<Cardinality({j \in kept : j <= i}), s[i]>> : i \in kept}
  IN SubSeq([p \in 1..Cardinality(kept) |-> (CHOOSE e \in placed : e[1] = p)[2]],
            1, Cardinality(kept))

\* std::find: the index of the first element equal to x, Len(s) for end()
Find(s, x) ==
  LET found == {i \in 1..Len(s) : s[i] = x}
  IN IF found = {} THEN Len(s)
     ELSE (CHOOSE i \in found : \A j \in found : i <= j) - 1

\* A choice of the vector that gives one byte to a dictionary of UINT8_MAX + 1
\* entries as well
get_fitted_vector_up_to_256(dictionary, size) ==
  LET unique_count == Len(dictionary)
  IN IF unique_count <= UINT8_MAX + 1 THEN FittedAttributeVector(1, size)
     ELSE IF unique_count <= UINT16_MAX THEN FittedAttributeVector(2, size)
     ELSE FittedAttributeVector(4, size)

\* The choice of the vector with < in the place of <=
get_fitted_vector_below(dictionary, size) ==
  LET unique_count == Len(dictionary)
  IN IF unique_count < UINT8_MAX THEN FittedAttributeVector(1, size)
     ELSE IF unique_count < UINT16_MAX THEN FittedAttributeVector(2, size)
     ELSE FittedAttributeVector(4, size)

\* A choice of the vector that gives four bytes to a dictionary of UINT16_MAX
\* entries
get_fitted_vector_two_bytes_below(dictionary, size) ==
  LET unique_count == Len(dictionary)
  IN IF unique_count <= UINT8_MAX THEN FittedAttributeVector(1, size)
     ELSE IF unique_count < UINT16_MAX THEN FittedAttributeVector(2, size)
     ELSE FittedAttributeVector(4, size)

\* A choice of the vector that gives every dictionary entries of one byte
get_fitted_vector_of_one_byte(dictionary, size) == FittedAttributeVector(1, size)

\* DictionaryColumn<T>::_get_fitted_vector
get_fitted_vector(dictionary, size) ==
  LET unique_count == Len(dictionary)
  IN IF unique_count <= UINT8_MAX THEN FittedAttributeVector(1, size)
     ELSE IF unique_count <= UINT16_MAX THEN FittedAttributeVector(2, size)
     ELSE FittedAttributeVector(4, size)

\* The loop of the constructor that fills the attribute vector, from row on:
\* _attribute_vector->set(row, position of values[row] in the dictionary)
FillAttributeVector(av, dictionary, values, row) ==
  [av EXCEPT !.values =
     SubSeq([r \in 1..Len(av.values) |->
               IF r > row /\ r <= Len(values)
               THEN Narrow(av.width, ValueID(Find(dictionary, values[r])))
               ELSE av.values[r]],
            1, Len(av.values))]

\* DictionaryColumn<T>::DictionaryColumn(base_column)
DictionaryColumn(T, base_column) ==
  LET sorted_values == Sort(base_column.values)
      dictionary == Unique(sorted_values)
      av == get_fitted_vector(dictionary, Len(sorted_values))
  IN [kind |-> "DictionaryColumn", type |-> T,
      dictionary |-> dictionary,
      attribute_vector |-> FillAttributeVector(av, dictionary, base_column.values, 0)]

\* DictionaryColumn<T>::get: _dictionary->at(_attribute_vector->get(i))
DictionaryColumn_get(column, i) ==
  At(column.dictionary, ValueID_index(AttributeVector_get(column.attribute_vector, i)))

\* std::lower_bound on a sorted vector: the first index whose element is not
\* less than value, Len(s) for end(); a binary search as in the library.
RECURSIVE std_lower_bound(_, _, _, _)
std_lower_bound(s, first, count, value) ==
  IF count <= 0 THEN first
  ELSE LET step == count \div 2
           mid == first + step
       IN IF At(s, mid) < value
          THEN std_lower_bound(s, mid + 1, count - (step + 1), value)
          ELSE std_lower_bound(s, first, step, value)

\* A variant that answers the first entry above value, as upper_bound does
lower_bound_above(column, value) ==
  LET it == std_lower_bound(column.dictionary, 0, Len(column.dictionary), value + 1)
  IN IF it = Len(column.dictionary) THEN INVALID_VALUE_ID ELSE ValueID(it)

\* DictionaryColumn<T>::lower_bound(const T value)
lower_bound(column, value) ==
  LET lower_bound_it == std_lower_bound(column.dictionary, 0, Len(column.dictionary), value)
  IN IF lower_bound_it = Len(column.dictionary) THEN INVALID_VALUE_ID
     ELSE ValueID(lower_bound_it)

\* std::upper_bound over s[first, first + count): the first position whose
\* entry is greater than value
RECURSIVE std_upper_bound(_, _, _, _)
std_upper_bound(s, first, count, value) ==
  IF count <= 0 THEN first
  ELSE LET step == count \div 2
           mid == first + step
       IN IF ~(value < At(s, mid))
          THEN std_upper_bound(s, mid + 1, count - (step + 1), value)
          ELSE std_upper_bound(s, first, step, value)

\* DictionaryColumn<T>::upper_bound(const T value)
upper_bound(column, value) ==
  LET upper_bound_it == std_upper_bound(column.dictionary, 0, Len(column.dictionary), value)
  IN IF upper_bound_it = Len(column.dictionary) THEN INVALID_VALUE_ID
     ELSE ValueID(upper_bound_it)

\* DebugAssert(casted_value, ...): a number converts to true unless it is 0
as_bool(casted_value) == casted_value # 0

\* DictionaryColumn<T>::lower_bound(const AllTypeVariant& value): the cast
\* throws, or the debug assertion on the casted value throws, or the typed
\* lower_bound answers.
lower_bound_of_variant(IS_DEBUG, column, value) ==
  IF ~can_type_cast(column.type, value) THEN [ok |-> FALSE, value_id |-> INVALID_VALUE_ID]
  ELSE LET casted_value == type_cast(column.type, value)
       IN IF ~DebugAssert(IS_DEBUG, as_bool(casted_value))
          THEN [ok |-> FALSE, value_id |-> INVALID_VALUE_ID]
          ELSE [ok |-> TRUE, value_id |-> lower_bound(column, casted_value)]

\* DictionaryColumn<T>::upper_bound(const AllTypeVariant& value): as above; the
\* second type_cast is applied to a value of type T and returns it.
upper_bound_of_variant(IS_DEBUG, column, value) ==
  IF ~can_type_cast(column.type, value) THEN [ok |-> FALSE, value_id |-> INVALID_VALUE_ID]
  ELSE LET casted_value == type_cast(column.type, value)
       IN IF ~DebugAssert(IS_DEBUG, as_bool(casted_value))
          THEN [ok |-> FALSE, value_id |-> INVALID_VALUE_ID]
          ELSE [ok |-> TRUE,
                value_id |-> upper_bound(column, type_cast(column.type, Variant(column.type, casted_value)))]

\* std::binary_search: lower_bound, then !(value < *it)
std_binary_search(s, value) ==
  LET it == std_lower_bound(s, 0, Len(s), value)
  IN it # Len(s) /\ ~(value < At(s, it))

----------------------------------------------------------------------------
(* storage_manager.cpp *)

\* A shared_ptr<Table> is modelled by the number of the table it points to;
\* manager is the _tables map, a function from the registered names.

\* StorageManager(): a map without entries
NoTables == <<>>

\* StorageManager::has_table
has_table(manager, name) == name \in DOMAIN manager

\* A variant of add_table that inserts and never throws
add_table_silent(manager, name, table) ==
  IF name \in DOMAIN manager
  THEN [ok |-> TRUE, manager |-> manager]
  ELSE [ok |-> TRUE, manager |-> (name :> table) @@ manager]

\* StorageManager::add_table: map::insert keeps the entry of a name it finds;
\* its .second tells whether it inserted.
add_table(manager, name, table) ==
  IF name \in DOMAIN manager
  THEN [ok |-> FALSE, manager |-> manager]
  ELSE [ok |-> TRUE, manager |-> (name :> table) @@ manager]

\* A variant of drop_table that erases and never throws
drop_table_silent(manager, name) ==
  [ok |-> TRUE, manager |-> [n \in (DOMAIN manager) \ {name} |-> manager[n]]]

\* StorageManager::drop_table: map::erase returns the number of entries erased
drop_table(manager, name) ==
  IF name \notin DOMAIN manager
  THEN [ok |-> FALSE, manager |-> manager]
  ELSE [ok |-> TRUE, manager |-> [n \in (DOMAIN manager) \ {name} |-> manager[n]]]

\* StorageManager::get_table: map::at throws std::out_of_range for a name
\* that is not a key. (table 0 stands for no table returned)
get_table(manager, name) ==
  IF name \notin DOMAIN manager
  THEN [ok |-> FALSE, table |-> 0]
  ELSE [ok |-> TRUE, table |-> manager[name]]

\* StorageManager::reset: get() = StorageManager()
reset(manager) == NoTables

----------------------------------------------------------------------------
(* reference_column.cpp *)

\* A PosList is shared by the segments that hold it: id tells the lists apart.
ReferenceColumn(referenced_table, referenced_column_id, pos) ==
  [kind |-> "ReferenceColumn", referenced_table |-> referenced_table,
   referenced_column_id |-> referenced_column_id, pos_list |-> pos]

PosList(id, rows) == [id |-> id, rows |-> rows]

\* A variant that answers the capacity the position list could have reserved
ReferenceColumn_size_reserved(column) == Len(column.pos_list.rows) + 1

\* ReferenceColumn::size
ReferenceColumn_size(column) == Len(column.pos_list.rows)

----------------------------------------------------------------------------
(* chunk.cpp: a Chunk is the vector of its columns *)

Column_size(column) ==
  CASE column.kind = "ValueColumn" -> Len(column.values)
    [] column.kind = "DictionaryColumn" -> AttributeVector_size(column.attribute_vector)
    [] column.kind = "ReferenceColumn" -> ReferenceColumn_size(column)

Chunk_add_column(chunk, column) == Append(chunk, column)

Chunk_col_count(chunk) == Len(chunk)

\* Chunk::size
Chunk_size(chunk) ==
  IF Chunk_col_count(chunk) = 0 THEN 0 ELSE Column_size(chunk[1])

\* BaseColumn::append on the three kinds of column: only a value column takes
\* it, and only a value that type_cast converts to the type of the column.
Column_append(column, val) ==
  IF column.kind = "ValueColumn" /\ can_type_cast(column.type, val)
  THEN [ok |-> TRUE, column |-> ValueColumn_append(column, val)]
  ELSE [ok |-> FALSE, column |-> column]

\* The loop of Chunk::append from column i on; it stops at the first column
\* whose append throws.
RECURSIVE Chunk_append_from(_, _, _)
Chunk_append_from(chunk, values, i) ==
  IF i >= Len(values) THEN [ok |-> TRUE, chunk |-> chunk]
  ELSE IF ~InRange(chunk, i) THEN [ok |-> FALSE, chunk |-> chunk]
  ELSE LET r == Column_append(At(chunk, i), At(values, i))
       IN IF ~r.ok THEN [ok |-> FALSE, chunk |-> chunk]
          ELSE Chunk_append_from([chunk EXCEPT ![i + 1] = r.column], values, i + 1)

\* Chunk::append: the chunk it leaves and whether it returned or threw
Chunk_append(IS_DEBUG, chunk, values) ==
  IF ~DebugAssert(IS_DEBUG, Len(values) = Chunk_col_count(chunk))
  THEN [ok |-> FALSE, chunk |-> chunk]
  ELSE Chunk_append_from(chunk, values, 0)

----------------------------------------------------------------------------
(* table.cpp *)

\* The loop of Table::create_new_chunk: a value column for every column type
RECURSIVE new_chunk_columns(_)
new_chunk_columns(column_types) ==
  IF column_types = <<>> THEN <<>>
  ELSE <<ValueColumn(Head(column_types))>> \o new_chunk_columns(Tail(column_types))

\* Table::create_new_chunk
create_new_chunk(t) ==
  [t EXCEPT !.chunks = Append(@, new_chunk_columns(t.column_types))]

\* Table::Table(chunk_size)
Table(chunk_size) ==
  create_new_chunk([chunks |-> <<>>, column_names |-> <<>>, column_types |-> <<>>,
                    max_chunk_size |-> chunk_size])

\* Table::add_column_definition
add_column_definition(t, name, type) ==
  [t EXCEPT !.column_names = Append(@, name), !.column_types = Append(@, type)]

\* Table::row_count
RECURSIVE SumSizes(_)
SumSizes(chunks) ==
  IF chunks = <<>> THEN 0 ELSE Chunk_size(Head(chunks)) + SumSizes(Tail(chunks))

\* A row count that reads the last chunk only
row_count_of_last_chunk(t) == Chunk_size(Last(t.chunks))

row_count(t) == SumSizes(t.chunks)

\* Table::add_column: the table it leaves and whether it returned or threw
add_column(IS_DEBUG, t, name, type) ==
  IF ~DebugAssert(IS_DEBUG, row_count(t) = 0) THEN [ok |-> FALSE, table |-> t]
  ELSE LET d == add_column_definition(t, name, type)
       IN [ok |-> TRUE,
           table |-> [d EXCEPT !.chunks =
                        [k \in 1..Len(d.chunks) |->
                           Chunk_add_column(d.chunks[k], ValueColumn(type))]]]

\* Table::column_id_by_name: std::find answers the first column of the name;
\* the call throws when there is none.
column_id_by_name(t, column_name) ==
  LET found == {i \in 0..(Len(t.column_names) - 1) : At(t.column_names, i) = column_name}
  IN IF found = {} THEN [ok |-> FALSE, column_id |-> 0]
     ELSE [ok |-> TRUE, column_id |-> CHOOSE i \in found : \A j \in found : i <= j]

\* Table::col_count
col_count(t) == Chunk_col_count(t.chunks[1])

\* Table::chunk_count
chunk_count(t) == Len(t.chunks)

\* Table::append that opens a new chunk only when the last one is over its size
Table_append_late(IS_DEBUG, t, values) ==
  LET grown == IF t.max_chunk_size > 0 /\ Chunk_size(Last(t.chunks)) > t.max_chunk_size
               THEN create_new_chunk(t) ELSE t
      r == Chunk_append(IS_DEBUG, Last(grown.chunks), values)
  IN [ok |-> r.ok, table |-> [grown EXCEPT !.chunks[Len(grown.chunks)] = r.chunk]]

\* Table::append: the table it leaves and whether it returned or threw
Table_append(IS_DEBUG, t, values) ==
  LET grown == IF t.max_chunk_size > 0 /\ Chunk_size(Last(t.chunks)) >= t.max_chunk_size
               THEN create_new_chunk(t) ELSE t
      r == Chunk_append(IS_DEBUG, Last(grown.chunks), values)
  IN [ok |-> r.ok, table |-> [grown EXCEPT !.chunks[Len(grown.chunks)] = r.chunk]]

\* Table::compress_chunk on a chunk of value columns
compress_chunk(t, chunk_id) ==
  LET uncompressed_chunk == At(t.chunks, chunk_id)
      compressed_chunk ==
        [c \in 1..Chunk_col_count(uncompressed_chunk) |->
           DictionaryColumn(t.column_types[c], uncompressed_chunk[c])]
  IN [t EXCEPT !.chunks[chunk_id + 1] = compressed_chunk]

\* Table::compress_chunk on a chunk of any columns.  For a column that is no
\* ValueColumn<T> the dynamic_pointer_cast in the constructor of the dictionary
\* column gives a null pointer: a debug build throws at DebugAssert(value_column),
\* a release build reads value_column->values() through the null pointer, which
\* is undefined: the process ends (undefined = <<"crashes">>), or the read
\* delivers some values (undefined = <<"values", v>>) and the call goes on.
\* The table is assigned its new chunk at the end of the call only.
compress_any_chunk(IS_DEBUG, t, chunk_id, undefined) ==
  LET uncompressed_chunk == At(t.chunks, chunk_id)
      value_columns ==
        \A c \in 1..Chunk_col_count(uncompressed_chunk) : uncompressed_chunk[c].kind = "ValueColumn"
      read_chunk ==
        [c \in 1..Chunk_col_count(uncompressed_chunk) |->
           IF uncompressed_chunk[c].kind = "ValueColumn" THEN uncompressed_chunk[c]
           ELSE [ValueColumn(t.column_types[c]) EXCEPT !.values = undefined[2]]]
  IN IF value_columns THEN [outcome |-> "returns", table |-> compress_chunk(t, chunk_id)]
     ELSE IF ~DebugAssert(IS_DEBUG, value_columns) THEN [outcome |-> "throws", table |-> t]
     ELSE IF undefined[1] = "crashes" THEN [outcome |-> "crashes", table |-> t]
     ELSE [outcome |-> "returns",
           table |-> compress_chunk([t EXCEPT !.chunks[chunk_id + 1] = read_chunk], chunk_id)]

\* Table::emplace_chunk: the chunk takes the place of the initial chunk while
\* that one is unused, and is added behind the others afterwards.
emplace_chunk(t, chunk) ==
  IF Len(t.chunks) = 1 /\ Chunk_size(t.chunks[1]) = 0
  THEN [t EXCEPT !.chunks = <<chunk>>]
  ELSE [t EXCEPT !.chunks = Append(@, chunk)]

----------------------------------------------------------------------------
(* table_scan.cpp *)

\* What a call returned, and what it threw.
Returned(v) == [status |-> "ok", value |-> v]

Thrown(what) == [status |-> what, value |-> <<>>]

\* The comparison lambdas of TableScanImpl<T>::execute, by scan type
compare(scan_type, value, search_value) ==
  CASE scan_type = "OpEquals" -> value = search_value
    [] scan_type = "OpNotEquals" -> value # search_value
    [] scan_type = "OpLessThan" -> value < search_value
    [] scan_type = "OpLessThanEquals" -> value <= search_value
    [] scan_type = "OpGreaterThan" -> value > search_value
    [] scan_type = "OpGreaterThanEquals" -> value >= search_value

\* for (index = 0; index < size; ++index)
\*   if (Test[index]) positions.emplace_back(RowID{chunk_id, index})
RECURSIVE ForEachOffset(_, _, _, _, _)
ForEachOffset(index, size, chunk_id, Test, pos) ==
  IF index >= size THEN pos
  ELSE ForEachOffset(index + 1, size, chunk_id, Test,
                     IF Test[index] THEN Append(pos, RowID(chunk_id, index)) ELSE pos)

\* TableScanImpl<T>::_handle_dictionary_column_for_scan_type_equals
handle_dictionary_column_for_scan_type_equals(ctx, pos) ==
  IF ~ctx.contains_value THEN pos
  ELSE LET Test[index \in 0..(AttributeVector_size(ctx.attribute_vector) - 1)] ==
             AttributeVector_get(ctx.attribute_vector, index) = ctx.search_value
       IN ForEachOffset(0, AttributeVector_size(ctx.attribute_vector), ctx.chunk_id, Test, pos)

\* TableScanImpl<T>::_handle_dictionary_column_for_scan_type_not_equals
handle_dictionary_column_for_scan_type_not_equals(ctx, pos) ==
  IF ~ctx.contains_value
  THEN LET Test[index \in 0..(AttributeVector_size(ctx.attribute_vector) - 1)] == TRUE
       IN ForEachOffset(0, AttributeVector_size(ctx.attribute_vector), ctx.chunk_id, Test, pos)
  ELSE LET Test[index \in 0..(AttributeVector_size(ctx.attribute_vector) - 1)] ==
             AttributeVector_get(ctx.attribute_vector, index) # ctx.search_value
       IN ForEachOffset(0, AttributeVector_size(ctx.attribute_vector), ctx.chunk_id, Test, pos)

\* TableScanImpl<T>::_handle_dictionary_column_for_scan_type_greater_than_equals
handle_dictionary_column_for_scan_type_greater_than_equals(ctx, pos) ==
  LET Test[index \in 0..(AttributeVector_size(ctx.attribute_vector) - 1)] ==
        ~ValueID_less(AttributeVector_get(ctx.attribute_vector, index), ctx.search_value)
  IN ForEachOffset(0, AttributeVector_size(ctx.attribute_vector), ctx.chunk_id, Test, pos)

\* TableScanImpl<T>::_handle_dictionary_column_for_scan_type_greater_than
handle_dictionary_column_for_scan_type_greater_than(ctx, pos) ==
  IF ~ctx.contains_value
  THEN handle_dictionary_column_for_scan_type_greater_than_equals(ctx, pos)
  ELSE LET Test[index \in 0..(AttributeVector_size(ctx.attribute_vector) - 1)] ==
             ValueID_less(ctx.search_value, AttributeVector_get(ctx.attribute_vector, index))
       IN ForEachOffset(0, AttributeVector_size(ctx.attribute_vector), ctx.chunk_id, Test, pos)

\* A variant with the operands of the comparison exchanged
handle_dictionary_column_for_scan_type_less_than_exchanged(ctx, pos) ==
  LET Test[index \in 0..(AttributeVector_size(ctx.attribute_vector) - 1)] ==
        ValueID_less(ctx.search_value, AttributeVector_get(ctx.attribute_vector, index))
  IN ForEachOffset(0, AttributeVector_size(ctx.attribute_vector), ctx.chunk_id, Test, pos)

\* TableScanImpl<T>::_handle_dictionary_column_for_scan_type_less_than
handle_dictionary_column_for_scan_type_less_than(ctx, pos) ==
  LET Test[index \in 0..(AttributeVector_size(ctx.attribute_vector) - 1)] ==
        ValueID_less(AttributeVector_get(ctx.attribute_vector, index), ctx.search_value)
  IN ForEachOffset(0, AttributeVector_size(ctx.attribute_vector), ctx.chunk_id, Test, pos)

\* A variant that includes the entry at search_value whether or not the
\* dictionary contains the value
handle_dictionary_column_for_scan_type_less_than_equals_inclusive(ctx, pos) ==
  LET Test[index \in 0..(AttributeVector_size(ctx.attribute_vector) - 1)] ==
        ~ValueID_less(ctx.search_value, AttributeVector_get(ctx.attribute_vector, index))
  IN ForEachOffset(0, AttributeVector_size(ctx.attribute_vector), ctx.chunk_id, Test, pos)

\* TableScanImpl<T>::_handle_dictionary_column_for_scan_type_less_than_equals
handle_dictionary_column_for_scan_type_less_than_equals(ctx, pos) ==
  IF ~ctx.contains_value
  THEN handle_dictionary_column_for_scan_type_less_than(ctx, pos)
  ELSE LET Test[index \in 0..(AttributeVector_size(ctx.attribute_vector) - 1)] ==
             ~ValueID_less(ctx.search_value, AttributeVector_get(ctx.attribute_vector, index))
       IN ForEachOffset(0, AttributeVector_size(ctx.attribute_vector), ctx.chunk_id, Test, pos)

\* The switch of execute over the scan type, for a dictionary column
handle_dictionary_column(scan_type, ctx, pos) ==
  CASE scan_type = "OpEquals" -> handle_dictionary_column_for_scan_type_equals(ctx, pos)
    [] scan_type = "OpNotEquals" -> handle_dictionary_column_for_scan_type_not_equals(ctx, pos)
    [] scan_type = "OpLessThan" -> handle_dictionary_column_for_scan_type_less_than(ctx, pos)
    [] scan_type = "OpLessThanEquals" ->
         handle_dictionary_column_for_scan_type_less_than_equals(ctx, pos)
    [] scan_type = "OpGreaterThan" ->
         handle_dictionary_column_for_scan_type_greater_than(ctx, pos)
    [] scan_type = "OpGreaterThanEquals" ->
         handle_dictionary_column_for_scan_type_greater_than_equals(ctx, pos)

\* The TableScanContext execute builds for a dictionary column
TableScanContext(dictionary_column, search_value, chunk_id) ==
  [attribute_vector |-> dictionary_column.attribute_vector,
   search_value |-> lower_bound(dictionary_column, search_value),
   contains_value |-> std_binary_search(dictionary_column.dictionary, search_value),
   chunk_id |-> chunk_id]

\* A variant whose loop starts at offset 1
handle_value_column_from_one(scan_type, column, chunk_id, search_value, pos) ==
  LET Test[index \in 0..(Column_size(column) - 1)] ==
        compare(scan_type, At(column.values, index), search_value)
  IN ForEachOffset(1, Column_size(column), chunk_id, Test, pos)

\* TableScanImpl<T>::_handle_value_column
handle_value_column(scan_type, column, chunk_id, search_value, pos) ==
  LET Test[index \in 0..(Column_size(column) - 1)] ==
        compare(scan_type, At(column.values, index), search_value)
  IN ForEachOffset(0, Column_size(column), chunk_id, Test, pos)

\* original_positions_it->chunk_id.  The loops of _handle_reference_column read
\* it before they compare the iterator with cend(): at cend() the read is of
\* whatever lies behind the vector, here the value stale.
it_chunk_id(original_positions, it, stale) ==
  IF it < Len(original_positions) THEN At(original_positions, it).chunk_id ELSE stale

\* A variant that reads the value id of a dictionary column for its value
original_value_id(original_column, chunk_offset) ==
  IF original_column.kind = "ValueColumn"
  THEN IF InRange(original_column.values, chunk_offset)
       THEN Returned(At(original_column.values, chunk_offset))
       ELSE Thrown("out_of_range")
  ELSE IF ~InRange(original_column.attribute_vector.values, chunk_offset)
       THEN Thrown("out_of_range")
       ELSE Returned(ValueID_index(AttributeVector_get(original_column.attribute_vector,
                                                       chunk_offset)))

\* values().at(chunk_offset) and DictionaryColumn::get(chunk_offset) of the
\* original column
original_value(original_column, chunk_offset) ==
  IF original_column.kind = "ValueColumn"
  THEN IF InRange(original_column.values, chunk_offset)
       THEN Returned(At(original_column.values, chunk_offset))
       ELSE Thrown("out_of_range")
  ELSE IF ~InRange(original_column.attribute_vector.values, chunk_offset)
       THEN Thrown("out_of_range")
       ELSE IF ~InRange(original_column.dictionary,
                        ValueID_index(AttributeVector_get(original_column.attribute_vector,
                                                          chunk_offset)))
            THEN Thrown("out_of_range")
            ELSE Returned(DictionaryColumn_get(original_column, chunk_offset))

\* The inner loops of _handle_reference_column: the positions of one chunk.
\* The value is the iterator and the positions it leaves.
RECURSIVE handle_reference_chunk(_, _, _, _, _, _, _, _)
handle_reference_chunk(scan_type, original_column, original_positions, original_chunk, search_value, stale, it, pos) ==
  IF ~(it_chunk_id(original_positions, it, stale) = original_chunk
       /\ it # Len(original_positions))
  THEN Returned([it |-> it, positions |-> pos])
  ELSE LET v == original_value(original_column, At(original_positions, it).chunk_offset)
       IN IF v.status # "ok" THEN v
          ELSE handle_reference_chunk(
                 scan_type, original_column, original_positions, original_chunk,
                 search_value, stale, it + 1,
                 IF compare(scan_type, v.value, search_value)
                 THEN Append(pos, At(original_positions, it)) ELSE pos)

\* The loop of _handle_reference_column over the chunks of the original table
RECURSIVE handle_reference_column_from(_, _, _, _, _, _, _, _, _)
handle_reference_column_from(T, scan_type, original_table, column, search_value, stale, original_chunk, it, pos) ==
  LET original_positions == column.pos_list.rows
  IN IF original_chunk >= chunk_count(original_table) THEN Returned(pos)
     ELSE IF it = Len(original_positions) THEN Returned(pos)
     ELSE IF At(original_positions, it).chunk_id > original_chunk
     THEN handle_reference_column_from(T, scan_type, original_table, column, search_value,
                                       stale, original_chunk + 1, it, pos)
     ELSE IF ~InRange(At(original_table.chunks, original_chunk), column.referenced_column_id)
     THEN Thrown("out_of_range")
     ELSE LET original_column ==
                At(At(original_table.chunks, original_chunk), column.referenced_column_id)
          IN IF original_column.kind \in {"ValueColumn", "DictionaryColumn"}
                /\ original_column.type = T
             THEN LET r == handle_reference_chunk(scan_type, original_column,
                                                  original_positions, original_chunk,
                                                  search_value, stale, it, pos)
                  IN IF r.status # "ok" THEN r
                     ELSE handle_reference_column_from(
                            T, scan_type, original_table, column, search_value, stale,
                            original_chunk + 1, r.value.it, r.value.positions)
             ELSE Thrown("logic_error: Unknown column type")

\* TableScanImpl<T>::_handle_reference_column
handle_reference_column(T, scan_type, heap, column, search_value, stale, pos) ==
  handle_reference_column_from(T, scan_type, heap[column.referenced_table], column,
                               search_value, stale, 0, 0, pos)

\* A variant that keeps scanning on behalf of the input table
unwrap_ref_table_kept(acc, column) == acc.ref_table

\* ref_table after a reference column: the table of the first one met

unwrap_ref_table(acc, column) ==
  IF ~acc.table_changed THEN column.referenced_table ELSE acc.ref_table

\* The loop of TableScanImpl<T>::execute over the chunks of the input table.
\* The value is the position list with ref_table and table_changed.
RECURSIVE execute_chunks(_, _, _, _, _, _, _, _)
execute_chunks(T, heap, table, column_id, scan_type, search_value, stale, acc) ==
  LET chunk_id == acc.chunk_id
  IN IF chunk_id >= chunk_count(table) THEN Returned(acc)
     ELSE IF ~InRange(At(table.chunks, chunk_id), column_id) THEN Thrown("out_of_range")
     ELSE
       LET column == At(At(table.chunks, chunk_id), column_id)
       IN CASE column.kind = "DictionaryColumn" /\ column.type = T ->
                 execute_chunks(T, heap, table, column_id, scan_type, search_value, stale,
                   [acc EXCEPT !.chunk_id = chunk_id + 1,
                               !.positions = handle_dictionary_column(
                                  scan_type, TableScanContext(column, search_value, chunk_id), @)])
            [] column.kind = "ValueColumn" /\ column.type = T ->
                 execute_chunks(T, heap, table, column_id, scan_type, search_value, stale,
                   [acc EXCEPT !.chunk_id = chunk_id + 1,
                               !.positions = handle_value_column(
                                  scan_type, column, chunk_id, search_value, @)])
            [] column.kind = "ReferenceColumn" ->
                 LET r == handle_reference_column(T, scan_type, heap, column, search_value,
                                                  stale, acc.positions)
                 IN IF r.status # "ok" THEN r
                    ELSE execute_chunks(T, heap, table, column_id, scan_type, search_value,
                           stale,
                           [chunk_id |-> chunk_id + 1,
                            positions |-> r.value,
                            ref_table |-> unwrap_ref_table(acc, column),
                            table_changed |-> TRUE])
            [] OTHER -> Thrown("logic_error: Unknown column type provided")

\* A variant that references the first column for every column
result_column_first(ref_table, column_id, result_positions) ==
  ReferenceColumn(ref_table, 0, result_positions)

\* std::make_shared<ReferenceColumn>(ref_table, column_id, result_positions)
result_column(ref_table, column_id, result_positions) ==
  ReferenceColumn(ref_table, column_id, result_positions)

\* The result table execute builds from ref_table and result_positions
RECURSIVE result_columns(_, _, _, _, _)
result_columns(table, ref_table, result_positions, column_id, acc) ==
  IF column_id >= col_count(table) THEN Returned(acc)
  ELSE IF ~InRange(table.column_names, column_id) THEN Thrown("out_of_range")
  ELSE result_columns(table, ref_table, result_positions, column_id + 1,
         [result_table |-> add_column_definition(acc.result_table,
                                                 At(table.column_names, column_id),
                                                 At(table.column_types, column_id)),
          result_chunk |-> Chunk_add_column(acc.result_chunk,
                             result_column(ref_table, column_id, result_positions))])

\* A variant that takes a number of any type for a column of numbers
holds_type_of_numbers(variant, T) ==
  \/ variant.type = T
  \/ variant.type # "string" /\ T # "string"

\* search_value().type() == typeid(T)
holds_type(variant, T) == variant.type = T

\* TableScanImpl<T>::execute.  in is the input table's place in the heap and
\* pos_id the identity of the PosList the scan allocates.
execute(T, heap, in, column_id, scan_type, variant, stale, pos_id) ==
  IF ~holds_type(variant, T) THEN Thrown("logic_error: Unknown column data type provided")
  ELSE
    LET search_value == type_cast(T, variant)
        table == heap[in]
        scanned == execute_chunks(T, heap, table, column_id, scan_type, search_value, stale,
                     [chunk_id |-> 0, positions |-> <<>>, ref_table |-> in,
                      table_changed |-> FALSE])
    IN IF scanned.status # "ok" THEN scanned
       ELSE LET built == result_columns(table, scanned.value.ref_table,
                                        PosList(pos_id, scanned.value.positions), 0,
                                        [result_table |-> Table(0), result_chunk |-> <<>>])
            IN IF built.status # "ok" THEN built
               ELSE Returned(emplace_chunk(built.value.result_table, built.value.result_chunk))

\* TableScan::_on_execute
on_execute(heap, in, column_id, scan_type, variant, stale, pos_id) ==
  IF ~InRange(heap[in].column_types, column_id) THEN Thrown("out_of_range")
  ELSE execute(At(heap[in].column_types, column_id), heap, in, column_id, scan_type,
               variant, stale, pos_id)

----------------------------------------------------------------------------
(* reference_column.cpp, value_column.cpp, dictionary_column.hpp: operator[] *)

\* BaseColumn::operator[](i) of the three kinds of column
RECURSIVE Column_at(_, _, _)
Column_at(heap, column, i) ==
  CASE column.kind = "ValueColumn" ->
         IF InRange(column.values, i) THEN Returned(At(column.values, i))
         ELSE Thrown("out_of_range")
    [] column.kind = "DictionaryColumn" -> original_value(column, i)
    [] column.kind = "ReferenceColumn" ->
         IF ~InRange(column.pos_list.rows, i) THEN Thrown("out_of_range")
         ELSE LET row_id == At(column.pos_list.rows, i)
                  referenced == heap[column.referenced_table]
              IN IF ~InRange(referenced.chunks, row_id.chunk_id) THEN Thrown("out_of_range")
                 ELSE LET chunk == At(referenced.chunks, row_id.chunk_id)
                      IN IF row_id.chunk_offset >= Chunk_size(chunk)
                         THEN Thrown("logic_error: Invalid chunk offset")
                         ELSE IF ~InRange(chunk, column.referenced_column_id)
                         THEN Thrown("out_of_range")
                         ELSE Column_at(heap, At(chunk, column.referenced_column_id),
                                        row_id.chunk_offset)

----------------------------------------------------------------------------
(* What a scan is expected to select, stated on the rows of the table *)

\* op(value, v) of the six scan types
Satisfies(scan_type, value, v) ==
  \/ scan_type = "OpEquals" /\ value = v
  \/ scan_type = "OpNotEquals" /\ value # v
  \/ scan_type = "OpLessThan" /\ value < v
  \/ scan_type = "OpLessThanEquals" /\ (value < v \/ value = v)
  \/ scan_type = "OpGreaterThan" /\ v < value
  \/ scan_type = "OpGreaterThanEquals" /\ (v < value \/ value = v)

\* The value a table holds in column column_id of the row row_id: the element of
\* a value segment, the dictionary entry a dictionary segment's attribute vector
\* names.
RowValue(t, column_id, row_id) ==
  LET column == At(At(t.chunks, row_id.chunk_id), column_id)
  IN IF column.kind = "ValueColumn" THEN At(column.values, row_id.chunk_offset)
     ELSE At(column.dictionary,
             ValueID_index(At(column.attribute_vector.values, row_id.chunk_offset)))

\* The row ids of a table in ascending (chunk_id, chunk_offset) order
RECURSIVE RowIDsFrom(_, _)
RowIDsFrom(t, chunk_id) ==
  IF chunk_id >= Len(t.chunks) THEN <<>>
  ELSE [i \in 1..Chunk_size(At(t.chunks, chunk_id)) |-> RowID(chunk_id, i - 1)]
       \o RowIDsFrom(t, chunk_id + 1)

AllRowIDs(t) == RowIDsFrom(t, 0)

\* The rows among candidates whose value in column column_id satisfies the predicate
Selected(t, candidates, column_id, scan_type, v) ==
  LET Keep(row_id) == Satisfies(scan_type, RowValue(t, column_id, row_id), v)
  IN SelectSeq(candidates, Keep)

----------------------------------------------------------------------------
(* The state machine *)

\* The columns the tables under scan are given, in this order
Schema == <<[name |-> "a", type |-> "int"], [name |-> "b", type |-> "long"]>>

ColumnIDs == 0..(Len(Schema) - 1)

Values == {v \in 1..MaxVal : v % 2 = 1}

SearchValues == 1..(MaxVal + 1)

\* The rows a table takes: one value of its type for every column
Rows(t) ==
  {[c \in 1..Len(t.column_types) |-> Variant(t.column_types[c], f[c])] :
     f \in [1..Len(t.column_types) -> Values]}

\* What the read behind the end of a position list may find
StaleValues == 0..MaxRows

NoScan ==
  [in |-> 0, column_id |-> 0, scan_type |-> "none", search_value |-> Variant("none", 0),
   status |-> "none", out |-> 0]

NoContext ==
  [attribute_vector |-> FittedAttributeVector(1, 0), search_value |-> ValueID(0),
   contains_value |-> FALSE, chunk_id |-> 0]

\* No call of the storage interface is on record
NoCall == [op |-> "none"]

BaseEntry(id) == [in |-> 0, base |-> id, expected |-> <<>>]

IsResult(id) == history[id].in # 0

ResultCount == Cardinality({id \in 1..Len(tables) : IsResult(id)})

\* No operator has been given the table yet
Unpublished(id) == \A r \in 1..Len(tables) : history[r].in # id

HasReference(t) ==
  \E k \in 1..Len(t.chunks) : \E c \in 1..Len(t.chunks[k]) :
     t.chunks[k][c].kind = "ReferenceColumn"

\* The driver holds no operator: the last one it executed has been let go
Idle == lastScan = NoScan

Init ==
  /\ tables = <<Table(ChunkSize)>>
  /\ history = <<BaseEntry(1)>>
  /\ lastScan = NoScan
  /\ context = NoContext
  /\ positions = <<>>
  /\ lastCall = NoCall
  /\ storage_manager = NoTables

\* table.add_column(name, type)
AddColumn(id, name, type) ==
  /\ Idle
  /\ ~IsResult(id) /\ Unpublished(id)
  /\ row_count(tables[id]) = 0
  /\ \E IS_DEBUG \in BOOLEAN :
       tables' = [tables EXCEPT ![id] = add_column(IS_DEBUG, @, name, type).table]
  /\ UNCHANGED <<lastScan, history, context, positions, lastCall, storage_manager>>

\* table.append(values)
AppendRow(id, values) ==
  /\ Idle
  /\ ~IsResult(id) /\ Unpublished(id)
  /\ \E IS_DEBUG \in BOOLEAN :
       tables' = [tables EXCEPT ![id] = Table_append(IS_DEBUG, @, values).table]
  /\ UNCHANGED <<lastScan, history, context, positions, lastCall, storage_manager>>

\* table.compress_chunk(chunk_id)
CompressChunk(id, chunk_id) ==
  /\ Idle
  /\ ~IsResult(id)
  /\ InRange(tables[id].chunks, chunk_id)
  /\ \A c \in 1..Len(At(tables[id].chunks, chunk_id)) :
        At(tables[id].chunks, chunk_id)[c].kind = "ValueColumn"
  /\ tables' = [tables EXCEPT ![id] = compress_chunk(@, chunk_id)]
  /\ UNCHANGED <<lastScan, history, context, positions, lastCall, storage_manager>>

\* TableScan(in, column_id, scan_type, search_value).execute()
Scan(in, column_id, scan_type, variant, stale) ==
  LET out == Len(tables) + 1
      r == on_execute(tables, in, column_id, scan_type, variant, stale, out)
      base == history[in].base
      candidates == IF IsResult(in) THEN history[in].expected ELSE AllRowIDs(tables[in])
  IN /\ Idle
     /\ lastScan' = [in |-> in, column_id |-> column_id, scan_type |-> scan_type,
                     search_value |-> variant, status |-> r.status,
                     out |-> IF r.status = "ok" THEN out ELSE 0]
     /\ IF r.status = "ok"
        THEN /\ tables' = Append(tables, r.value)
             /\ history' = Append(history,
                  [in |-> in, base |-> base,
                   expected |-> IF base = 0 THEN <<>>
                                ELSE Selected(tables[base], candidates, column_id,
                                              scan_type, variant.val)])
        ELSE UNCHANGED <<tables, history>>
     /\ UNCHANGED <<context, positions, lastCall, storage_manager>>

\* The driver lets go of the operator it executed; the table the operator
\* returned stays in the heap.
Release ==
  /\ ~Idle
  /\ lastScan' = NoScan
  /\ UNCHANGED <<tables, history, context, positions, lastCall, storage_manager>>

\* The type of the column a scan names, "int" where the table has no such column
TypeOfColumn(t, column_id) ==
  IF InRange(t.column_types, column_id) THEN At(t.column_types, column_id) ELSE "int"

AddNextColumn ==
  /\ Len(tables[1].column_names) < Len(Schema)
  /\ AddColumn(1, Schema[Len(tables[1].column_names) + 1].name,
               Schema[Len(tables[1].column_names) + 1].type)

AppendSome ==
  /\ row_count(tables[1]) < MaxRows
  /\ \E values \in Rows(tables[1]) : AppendRow(1, values)

CompressSome == \E chunk_id \in 0..(MaxRows - 1) : CompressChunk(1, chunk_id)

\* The operators of a query plan form a chain: a scan reads the table the
\* previous scan returned, the first one the table the driver built.
ScanSome ==
  /\ ResultCount < MaxScans
  /\ \E column_id \in ColumnIDs, scan_type \in ScanTypes, val \in SearchValues :
       \E stale \in IF HasReference(Last(tables)) THEN StaleValues ELSE {0} :
          Scan(Len(tables), column_id, scan_type,
               Variant(TypeOfColumn(Last(tables), column_id), val), stale)

Next == AddNextColumn \/ AppendSome \/ CompressSome \/ ScanSome \/ Release

Spec == Init /\ [][Next]_vars

----------------------------------------------------------------------------
(* Properties of the table scan *)

\* The position list of the table a scan returned
PosListOf(id) == Last(tables[id].chunks)[1].pos_list

RowID_less(a, b) ==
  a.chunk_id < b.chunk_id \/ (a.chunk_id = b.chunk_id /\ a.chunk_offset < b.chunk_offset)

StrictlyAscending(rows) ==
  \A i, j \in 1..Len(rows) : i < j => RowID_less(rows[i], rows[j])

\* Every (chunk_id, offset) of a table
RowIDSet(t) ==
  {RowID(k - 1, o) : k \in 1..Len(t.chunks), o \in 0..(MaxRows + 1)}
    \cap {r \in [chunk_id : 0..(Len(t.chunks) - 1), chunk_offset : 0..(MaxRows + 1)] :
            r.chunk_offset < Chunk_size(At(t.chunks, r.chunk_id))}

ScannedKinds(t, column_id) == {t.chunks[k][column_id + 1].kind : k \in 1..Len(t.chunks)}

\* The last scan returned a table, and read the table of the driver itself
ScannedBase == lastScan.status = "ok" /\ ~IsResult(lastScan.in)

\* C1: a scan over a column held in value segments returns exactly the rows
\* whose value satisfies the predicate, each once, in ascending
\* (chunk_id, chunk_offset) order.
C1_ValueScanComplete ==
  (ScannedBase /\ ScannedKinds(tables[lastScan.in], lastScan.column_id) = {"ValueColumn"})
  => LET t == tables[lastScan.in]
         P == PosListOf(lastScan.out).rows
     IN /\ StrictlyAscending(P)
        /\ Range(P) = {r \in RowIDSet(t) :
                         Satisfies(lastScan.scan_type, RowValue(t, lastScan.column_id, r),
                                   lastScan.search_value.val)}

\* A scan over two value chunks that selected some rows of the second chunk and
\* not all rows of the table
C1_Witness ==
  /\ ScannedBase
  /\ ScannedKinds(tables[lastScan.in], lastScan.column_id) = {"ValueColumn"}
  /\ Len(tables[lastScan.in].chunks) = 2
  /\ \E i \in 1..Len(PosListOf(lastScan.out).rows) :
        PosListOf(lastScan.out).rows[i].chunk_id = 1
  /\ Len(PosListOf(lastScan.out).rows) < row_count(tables[lastScan.in])

\* What a scan of table in of the heap gives: how it ended, and for a returned
\* table its schema, its position list and the rows read through its segments
ScanOutcome(heap, in, column_id, scan_type, variant) ==
  LET r == on_execute(heap, in, column_id, scan_type, variant, 0, Len(heap) + 1)
  IN IF r.status # "ok" THEN <<r.status>>
     ELSE LET chunk == Last(r.value.chunks)
              P == chunk[1].pos_list.rows
          IN <<r.status, r.value.column_names, r.value.column_types, P,
               [i \in 1..Len(P) |->
                  [c \in 1..Len(chunk) |-> Column_at(heap, chunk[c], i - 1)]]>>

Compressed(id, chunk_id) ==
  /\ InRange(tables[id].chunks, chunk_id)
  /\ \A c \in 1..Len(At(tables[id].chunks, chunk_id)) :
        At(tables[id].chunks, chunk_id)[c].kind = "ValueColumn"
  /\ tables' = [tables EXCEPT ![id] = compress_chunk(@, chunk_id)]
  /\ tables' # tables

\* C2: compressing a chunk of a table changes the outcome of no scan of the
\* table: same position list, same schema, same rows.  (Compressing the chunks
\* of a set K is a sequence of such steps.)
C2_CompressionKeepsScans ==
  [][\A chunk_id \in 0..MaxRows :
       Compressed(1, chunk_id) =>
         \A column_id \in ColumnIDs, scan_type \in ScanTypes, val \in SearchValues :
            ScanOutcome(tables', 1, column_id, scan_type,
                        Variant(TypeOfColumn(tables[1], column_id), val))
            = ScanOutcome(tables, 1, column_id, scan_type,
                          Variant(TypeOfColumn(tables[1], column_id), val))]_vars

\* A scan that selected rows from a compressed chunk and from a value chunk of
\* one table
C2_Witness ==
  /\ ScannedBase
  /\ ScannedKinds(tables[lastScan.in], lastScan.column_id) = {"ValueColumn", "DictionaryColumn"}
  /\ {PosListOf(lastScan.out).rows[i].chunk_id :
        i \in 1..Len(PosListOf(lastScan.out).rows)} = {0, 1}
  /\ Len(PosListOf(lastScan.out).rows) < row_count(tables[lastScan.in])

\* vid and contains of the fast path, stated on the dictionary: the least index
\* whose entry is not below v, and whether v is an entry
LeastNotBelow(dictionary, v) ==
  IF \E i \in 1..Len(dictionary) : dictionary[i] >= v
  THEN ValueID((CHOOSE i \in 1..Len(dictionary) :
                  /\ dictionary[i] >= v
                  /\ \A j \in 1..(i - 1) : dictionary[j] < v) - 1)
  ELSE INVALID_VALUE_ID

\* The fast-path table: whether offset i is emitted, from A[i], vid and contains
FastPathEmits(scan_type, contains, a, vid) ==
  CASE scan_type = "OpEquals" -> contains /\ a = vid
    [] scan_type = "OpNotEquals" -> ~contains \/ a # vid
    [] scan_type = "OpLessThan" -> ValueID_less(a, vid)
    [] scan_type = "OpLessThanEquals" ->
         IF contains THEN ValueID_less(a, vid) \/ a = vid ELSE ValueID_less(a, vid)
    [] scan_type = "OpGreaterThan" ->
         IF contains THEN ValueID_less(vid, a) ELSE ValueID_less(vid, a) \/ a = vid
    [] scan_type = "OpGreaterThanEquals" -> ValueID_less(vid, a) \/ a = vid

\* The positions the fast-path table gives for one dictionary segment
FastPathPositions(scan_type, column, chunk_id, v) ==
  LET A == column.attribute_vector.values
      vid == LeastNotBelow(column.dictionary, v)
      contains == v \in Range(column.dictionary)
      Emit(row_id) == FastPathEmits(scan_type, contains, A[row_id.chunk_offset + 1], vid)
  IN SelectSeq([i \in 1..Len(A) |-> RowID(chunk_id, i - 1)], Emit)

PositionsOfChunk(rows, chunk_id) ==
  LET OfChunk(row_id) == row_id.chunk_id = chunk_id
  IN SelectSeq(rows, OfChunk)

\* C3: for every dictionary segment a scan read, the positions it emitted for
\* that segment are those of the fast-path table.
C3_FastPathTable ==
  ScannedBase =>
    \A k \in 1..Len(tables[lastScan.in].chunks) :
       LET column == tables[lastScan.in].chunks[k][lastScan.column_id + 1]
       IN column.kind = "DictionaryColumn" =>
            PositionsOfChunk(PosListOf(lastScan.out).rows, k - 1)
            = FastPathPositions(lastScan.scan_type, column, k - 1, lastScan.search_value.val)

\* A <= scan of a dictionary segment with two entries for a value between them:
\* contains is false, vid is 1, and the scan emitted some but not all offsets
C3_Witness ==
  /\ ScannedBase
  /\ lastScan.scan_type = "OpLessThanEquals"
  /\ \E k \in 1..Len(tables[lastScan.in].chunks) :
        LET column == tables[lastScan.in].chunks[k][lastScan.column_id + 1]
            emitted == PositionsOfChunk(PosListOf(lastScan.out).rows, k - 1)
        IN /\ column.kind = "DictionaryColumn"
           /\ Len(column.dictionary) = 2
           /\ lastScan.search_value.val \notin Range(column.dictionary)
           /\ LeastNotBelow(column.dictionary, lastScan.search_value.val) = ValueID(1)
           /\ Len(emitted) >= 1
           /\ Len(emitted) < Len(column.attribute_vector.values)

ResultIds == {id \in 1..Len(tables) : IsResult(id)}

\* C5: every segment of every table a scan of the chain returned is a reference
\* segment on the table the chain started from, which holds no reference
\* segment itself.
C5_BaseTablePreserved ==
  \A id \in ResultIds :
     \A k \in 1..Len(tables[id].chunks) : \A c \in 1..Len(tables[id].chunks[k]) :
        LET column == tables[id].chunks[k][c]
        IN /\ column.kind = "ReferenceColumn"
           /\ column.referenced_table = 1
           /\ ~HasReference(tables[column.referenced_table])

\* A scan over the output of a scan returned a table with rows
C5_Witness ==
  /\ lastScan.status = "ok"
  /\ IsResult(lastScan.in)
  /\ Len(PosListOf(lastScan.out).rows) >= 1

\* C6: the position list of every table of the chain is the ascending sequence
\* of the rows of the base table that satisfy the predicates of all the scans
\* up to it.
C6_ChainSelectsConjunction ==
  \A id \in ResultIds :
     /\ PosListOf(id).rows = history[id].expected
     /\ StrictlyAscending(PosListOf(id).rows)

\* A scan over the output of a scan, on a base table of a dictionary chunk and a
\* value chunk, kept rows of both chunks and dropped some row
C6_Witness ==
  /\ lastScan.status = "ok"
  /\ IsResult(lastScan.in)
  /\ ScannedKinds(tables[1], 0) = {"ValueColumn", "DictionaryColumn"}
  /\ {PosListOf(lastScan.out).rows[i].chunk_id :
        i \in 1..Len(PosListOf(lastScan.out).rows)} = {0, 1}
  /\ Len(PosListOf(lastScan.out).rows) < Len(PosListOf(lastScan.in).rows)

\* C7: a table a scan returned has the schema of the scan's input, and its
\* c-th segment is the reference segment (T_ref, c, P) with one T_ref and one
\* position list P for all columns.
C7_ResultSchemaAndSegments ==
  \A id \in ResultIds :
     LET result == tables[id]
         input == tables[history[id].in]
         chunk == Last(result.chunks)
     IN /\ result.column_names = input.column_names
        /\ result.column_types = input.column_types
        /\ Len(chunk) = Len(input.column_names)
        /\ \A c \in 1..Len(chunk) :
              chunk[c] = ReferenceColumn(chunk[1].referenced_table, c - 1, chunk[1].pos_list)

\* A scan of a table of two columns returned a table with rows
C7_Witness ==
  /\ lastScan.status = "ok"
  /\ Len(tables[lastScan.out].column_names) = 2
  /\ Len(PosListOf(lastScan.out).rows) >= 1

\* C8: a table a scan returned has exactly one chunk, and as many rows as its
\* position list has entries.
C8_ResultOneChunk ==
  \A id \in ResultIds :
     /\ chunk_count(tables[id]) = 1
     /\ row_count(tables[id]) = Len(PosListOf(id).rows)

\* A scan of a table with rows returned a table with an empty position list
C8_Witness ==
  /\ lastScan.status = "ok"
  /\ row_count(tables[1]) >= 2
  /\ PosListOf(lastScan.out).rows = <<>>
  /\ chunk_count(tables[lastScan.out]) = 1

----------------------------------------------------------------------------
(* The fast path on attribute vectors of every width *)

Widths == {1, 2, 4}

\* The value ids a dictionary column stores in an attribute vector of a width:
\* indexes into a dictionary that _get_fitted_vector gives that width, the
\* smallest and the greatest of them
EntryIds(width) ==
  CASE width = 1 -> {ValueID(0), ValueID(1), ValueID(UINT8_MAX - 1)}
    [] width = 2 -> {ValueID(0), ValueID(UINT8_MAX), ValueID(UINT16_MAX - 1)}
    [] width = 4 -> {ValueID(0), ValueID(UINT16_MAX), ValueID(UINT16_MAX + 1),
                     [hi |-> UINT16_MAX, lo |-> UINT16_MAX - 1]}

\* The contexts execute hands to the handlers: what lower_bound and
\* binary_search answered for the search value.  A value above every dictionary
\* entry gives INVALID_VALUE_ID and contains_value false.
InitFastPath ==
  /\ tables = <<>>
  /\ history = <<>>
  /\ lastScan = NoScan
  /\ positions = <<>>
  /\ lastCall = NoCall
  /\ storage_manager = NoTables
  /\ \E width \in Widths, size \in 1..MaxEntries, contains_value \in BOOLEAN :
       \E search_value \in {ValueID(0), ValueID(1), INVALID_VALUE_ID} :
          /\ contains_value => search_value # INVALID_VALUE_ID
          /\ context = [attribute_vector |-> FittedAttributeVector(width, size),
                        search_value |-> search_value,
                        contains_value |-> contains_value, chunk_id |-> 0]

\* attribute_vector->set(i, value_id), as the constructor of the dictionary
\* column calls it
SetEntry(i, value_id) ==
  /\ Idle
  /\ context' = [context EXCEPT !.attribute_vector = AttributeVector_set(@, i, value_id)]
  /\ UNCHANGED <<tables, history, lastScan, positions, lastCall, storage_manager>>

\* The switch of execute for one dictionary column
HandleDictionaryColumn(scan_type) ==
  /\ Idle
  /\ positions' = handle_dictionary_column(scan_type, context, <<>>)
  /\ lastScan' = [NoScan EXCEPT !.scan_type = scan_type, !.status = "ok"]
  /\ UNCHANGED <<tables, history, context, lastCall, storage_manager>>

SetSomeEntry ==
  \E i \in 0..(MaxEntries - 1) :
     /\ i < AttributeVector_size(context.attribute_vector)
     /\ \E value_id \in EntryIds(context.attribute_vector.width) : SetEntry(i, value_id)

HandleSome == \E scan_type \in ScanTypes : HandleDictionaryColumn(scan_type)

NextFastPath == SetSomeEntry \/ HandleSome

SpecFastPath == InitFastPath /\ [][NextFastPath]_vars

AllOffsets(chunk_id, size) == [i \in 1..size |-> RowID(chunk_id, i - 1)]

\* C4: when lower_bound answered INVALID_VALUE_ID, the scans =, >= and > of a
\* dictionary segment emit nothing and the scans !=, < and <= emit every
\* position, for attribute vectors of width 1, 2 and 4.
C4_InvalidIdFastPath ==
  (lastScan.status = "ok" /\ context.search_value = INVALID_VALUE_ID)
  => positions =
       IF lastScan.scan_type \in {"OpEquals", "OpGreaterThanEquals", "OpGreaterThan"}
       THEN <<>>
       ELSE AllOffsets(context.chunk_id, Len(context.attribute_vector.values))

\* A >= scan for INVALID_VALUE_ID over a vector of width 1 that holds the
\* greatest id of its width
C4_Witness ==
  /\ lastScan.status = "ok"
  /\ lastScan.scan_type = "OpGreaterThanEquals"
  /\ context.search_value = INVALID_VALUE_ID
  /\ context.attribute_vector.width = 1
  /\ ValueID(UINT8_MAX - 1) \in Range(context.attribute_vector.values)
  /\ positions = <<>>

----------------------------------------------------------------------------
(* Scans with search values of every type *)

InitTypes == Init

AddTypedColumn ==
  /\ Len(tables[1].column_names) < Len(Schema)
  /\ \E type \in ElementTypes :
        AddColumn(1, Schema[Len(tables[1].column_names) + 1].name, type)

AppendTyped ==
  /\ row_count(tables[1]) < MaxTypedRows
  /\ \E values \in Rows(tables[1]) : AppendRow(1, values)

ScanTyped ==
  /\ ResultCount < 1
  /\ \E column_id \in ColumnIDs, scan_type \in ScanTypes :
       \E type \in ElementTypes, val \in Values :
          Scan(1, column_id, scan_type, Variant(type, val), 0)

NextTypes == AddTypedColumn \/ AppendTyped \/ ScanTyped \/ Release

SpecTypes == InitTypes /\ [][NextTypes]_vars

\* C9: a scan whose search value is of another type than the scanned column
\* fails with the error of a wrong data type and returns no table, whichever the
\* two types are.
C9_TypeMismatchFails ==
  [][(/\ lastScan = NoScan
      /\ lastScan' # NoScan
      /\ InRange(tables[lastScan'.in].column_types, lastScan'.column_id)
      /\ lastScan'.search_value.type
           # At(tables[lastScan'.in].column_types, lastScan'.column_id))
     => /\ lastScan'.status = "logic_error: Unknown column data type provided"
        /\ lastScan'.out = 0
        /\ tables' = tables]_vars

\* A scan of a float column that holds a row, for a double
C9_Witness ==
  /\ lastScan.status = "logic_error: Unknown column data type provided"
  /\ lastScan.search_value.type = "double"
  /\ At(tables[1].column_types, lastScan.column_id) = "float"
  /\ row_count(tables[1]) = 1
  /\ Len(tables) = 1

----------------------------------------------------------------------------
(* Scans of a table composed of reference segments *)

Parts == {1, 2}

\* A table no scan returned, built of the segments of tables scans returned
ComposedEntry == [in |-> 0, base |-> 0, expected |-> <<>>]

IsComposed(id) == history[id] = ComposedEntry

InitParts ==
  /\ tables = <<Table(ChunkSize), Table(ChunkSize)>>
  /\ history = <<BaseEntry(1), BaseEntry(2)>>
  /\ lastScan = NoScan
  /\ context = NoContext
  /\ positions = <<>>
  /\ lastCall = NoCall
  /\ storage_manager = NoTables

AddPartColumn ==
  \E id \in Parts :
     /\ tables[id].column_names = <<>>
     /\ AddColumn(id, Schema[1].name, Schema[1].type)

AppendPart ==
  \E id \in Parts :
     /\ row_count(tables[id]) < MaxPartRows
     /\ \E values \in Rows(tables[id]) : AppendRow(id, values)

ScanPart ==
  \E id \in Parts :
     /\ Unpublished(id)
     /\ \E scan_type \in ScanTypes, val \in SearchValues :
          Scan(id, 0, scan_type, Variant(Schema[1].type, val), 0)

\* Table(), add_column_definition for the columns of the first table, then
\* emplace_chunk with the chunk of each
Compose(first, second) ==
  LET defined == add_column_definition(Table(0), tables[first].column_names[1],
                                       tables[first].column_types[1])
      composed == emplace_chunk(emplace_chunk(defined, Last(tables[first].chunks)),
                                Last(tables[second].chunks))
  IN /\ Idle
     /\ tables' = Append(tables, composed)
     /\ history' = Append(history, ComposedEntry)
     /\ UNCHANGED <<lastScan, context, positions, lastCall, storage_manager>>

ComposeSome ==
  /\ \A id \in 1..Len(tables) : ~IsComposed(id)
  /\ \E first, second \in ResultIds : first # second /\ Compose(first, second)

ScanComposed ==
  /\ IsComposed(Len(tables))
  /\ \E scan_type \in ScanTypes, val \in SearchValues, stale \in StaleValues :
       Scan(Len(tables), 0, scan_type, Variant(Schema[1].type, val), stale)

NextParts == AddPartColumn \/ AppendPart \/ ScanPart \/ ComposeSome \/ ScanComposed \/ Release

SpecParts == InitParts /\ [][NextParts]_vars

\* The tables the reference segments of a table refer to
ReferencedTables(t) ==
  {t.chunks[k][c].referenced_table :
     k \in 1..Len(t.chunks), c \in 1..Len(Last(t.chunks))}

Heterogeneous(t) == HasReference(t) /\ Cardinality(ReferencedTables(t)) >= 2

\* C10: a scan of a table whose reference segments refer to two different
\* tables fails (with HeterogeneousReferenceInput): it returns no table.
C10_HeterogeneousInputFails ==
  (lastScan.status # "none" /\ Heterogeneous(tables[lastScan.in]))
  => lastScan.status # "ok"

----------------------------------------------------------------------------
(* The storage interface, called with rows and at times of any kind *)

\* The values of a row: a number, and a text that is no number
CellValues == {Variant("int", 1), Variant("string", NoNumber)}

ColumnTypes == {"int", "string"}

\* The rows handed to append: of every length up to one more than the columns
AnyRows == UNION {[1..n -> CellValues] : n \in 0..(MaxColumns + 1)}

\* A call is on record with the build that ran it, its arguments, the table it
\* found and whether it returned (ok) or threw.
InitTable ==
  /\ \E chunk_size \in 0..MaxCapacity : tables = <<Table(chunk_size)>>
  /\ history = <<BaseEntry(1)>>
  /\ lastScan = NoScan
  /\ context = NoContext
  /\ positions = <<>>
  /\ lastCall = NoCall
  /\ storage_manager = NoTables

\* table.add_column(name, type), on a table with or without rows
CallAddColumn(IS_DEBUG, name, type) ==
  LET r == add_column(IS_DEBUG, tables[1], name, type)
  IN /\ tables' = [tables EXCEPT ![1] = r.table]
     /\ lastCall' = [op |-> "add_column", IS_DEBUG |-> IS_DEBUG, name |-> name,
                     type |-> type, before |-> tables[1], ok |-> r.ok]
     /\ UNCHANGED <<lastScan, history, context, positions, storage_manager>>

\* table.append(values), with a row of any length
CallAppend(IS_DEBUG, values) ==
  LET r == Table_append(IS_DEBUG, tables[1], values)
  IN /\ tables' = [tables EXCEPT ![1] = r.table]
     /\ lastCall' = [op |-> "append", IS_DEBUG |-> IS_DEBUG, values |-> values,
                     before |-> tables[1], ok |-> r.ok]
     /\ UNCHANGED <<lastScan, history, context, positions, storage_manager>>

\* table.compress_chunk(chunk_id), on a chunk of value columns
CallCompressChunk(chunk_id) ==
  /\ InRange(tables[1].chunks, chunk_id)
  /\ \A c \in 1..Len(At(tables[1].chunks, chunk_id)) :
        At(tables[1].chunks, chunk_id)[c].kind = "ValueColumn"
  /\ tables' = [tables EXCEPT ![1] = compress_chunk(@, chunk_id)]
  /\ lastCall' = [op |-> "compress_chunk", chunk_id |-> chunk_id,
                  before |-> tables[1], ok |-> TRUE]
  /\ UNCHANGED <<lastScan, history, context, positions, storage_manager>>

\* The names the columns are given, in this order
ColumnNames == <<"a", "b", "c", "d">>

AddAnyColumn ==
  /\ Len(tables[1].column_names) < MaxColumns
  /\ Len(tables[1].column_names) < Len(ColumnNames)
  /\ \E IS_DEBUG \in BOOLEAN, type \in ColumnTypes :
        CallAddColumn(IS_DEBUG, ColumnNames[Len(tables[1].column_names) + 1], type)

AppendAny ==
  /\ row_count(tables[1]) < MaxTableRows
  /\ \E IS_DEBUG \in BOOLEAN, values \in AnyRows : CallAppend(IS_DEBUG, values)

CompressAny == \E chunk_id \in 0..(MaxTableRows - 1) : CallCompressChunk(chunk_id)

NextTable == AddAnyColumn \/ AppendAny \/ CompressAny

SpecTable == InitTable /\ [][NextTable]_vars

----------------------------------------------------------------------------
(* Properties of the storage interface *)

\* C11: with a chunk_size c > 0 no chunk holds more than c rows and every chunk
\* but the last holds exactly c rows; with c = 0 the table has one chunk.  The
\* number of chunks changes only by an append that finds c > 0 and the last
\* chunk at c rows or more, and it grows by one then.
C11_ChunkingByCapacity ==
  LET t == tables[1]
      c == t.max_chunk_size
  IN /\ c > 0 => /\ \A k \in 1..Len(t.chunks) : Chunk_size(t.chunks[k]) <= c
                 /\ \A k \in 1..(Len(t.chunks) - 1) : Chunk_size(t.chunks[k]) = c
     /\ c = 0 => Len(t.chunks) = 1
     /\ (lastCall.op # "none" /\ Len(t.chunks) # Len(lastCall.before.chunks))
          => /\ lastCall.op = "append"
             /\ c > 0
             /\ Chunk_size(Last(lastCall.before.chunks)) >= c
             /\ Len(t.chunks) = Len(lastCall.before.chunks) + 1

\* A third row appended with chunk_size 2: the append found the only chunk full
\* and put the row into a new one.
C11_Witness ==
  /\ tables[1].max_chunk_size = 2
  /\ lastCall.op = "append" /\ lastCall.ok
  /\ Len(lastCall.before.chunks) = 1
  /\ Len(tables[1].chunks) = 2
  /\ Chunk_size(tables[1].chunks[1]) = 2
  /\ Chunk_size(tables[1].chunks[2]) = 1

\* The rows of a table, counted chunk by chunk: the places <<chunk, offset>>
RowPlaces(t) ==
  UNION {{<<k, o>> : o \in 1..Chunk_size(t.chunks[k])} : k \in 1..Len(t.chunks)}

\* The last call was an append that returned
AppendReturned == lastCall.op = "append" /\ lastCall.ok

\* C12, as stated: row_count() is the sum of the sizes of the chunks, and every
\* append that returns leaves row_count() greater by exactly one.
C12_EveryAppendAddsOneRow ==
  /\ row_count(tables[1]) = Cardinality(RowPlaces(tables[1]))
  /\ AppendReturned => row_count(tables[1]) = row_count(lastCall.before) + 1

\* C12: row_count() is the sum of the sizes of the chunks, and every append
\* that returns, of a row with one value for each of the one or more columns of
\* the table, leaves row_count() greater by exactly one.
C12_AppendOfFullRowAddsOneRow ==
  /\ row_count(tables[1]) = Cardinality(RowPlaces(tables[1]))
  /\ (/\ AppendReturned
      /\ Len(lastCall.values) >= 1
      /\ Len(lastCall.values) = col_count(lastCall.before))
     => row_count(tables[1]) = row_count(lastCall.before) + 1

\* The third row of a table of two columns, appended behind a full chunk
C12_Witness ==
  /\ AppendReturned
  /\ Len(lastCall.values) = 2
  /\ col_count(lastCall.before) = 2
  /\ row_count(lastCall.before) = 2
  /\ row_count(tables[1]) = 3
  /\ Len(tables[1].chunks) = 2

\* C13: add_column on a table that holds rows fails and leaves the schema and
\* the chunks as they were; on a table without rows it adds the name and the
\* type to the schema and an empty value column of the type to every chunk.
C13_AddColumnOnlyWhileEmpty ==
  lastCall.op = "add_column" =>
    LET before == lastCall.before
        after == tables[1]
    IN IF row_count(before) > 0
       THEN ~lastCall.ok /\ after = before
       ELSE /\ lastCall.ok
            /\ after.column_names = Append(before.column_names, lastCall.name)
            /\ after.column_types = Append(before.column_types, lastCall.type)
            /\ Len(after.chunks) = Len(before.chunks)
            /\ \A k \in 1..Len(before.chunks) :
                  after.chunks[k] = Append(before.chunks[k], ValueColumn(lastCall.type))

\* The chunk Chunk::append was called on by the last call, an append: the last
\* chunk of the table, or the empty chunk Table::append put behind a full one
AppendedChunk ==
  LET before == lastCall.before
  IN IF before.max_chunk_size > 0 /\ Chunk_size(Last(before.chunks)) >= before.max_chunk_size
     THEN new_chunk_columns(before.column_types)
     ELSE Last(before.chunks)

\* Every column of the chunk takes the value of the row that is meant for it
TakesRow(chunk, values) ==
  \A i \in 1..Len(chunk) :
     chunk[i].kind = "ValueColumn" /\ can_type_cast(chunk[i].type, values[i])

\* C14: Chunk::append of a row that is shorter or longer than the chunk has
\* columns fails; of a row with one value per column it appends the i-th value
\* to the i-th column (where the columns are value columns that take the values).
C14_ArityMismatchFails ==
  lastCall.op = "append" =>
    LET chunk == AppendedChunk
        values == lastCall.values
        after == Last(tables[1].chunks)
    IN /\ Len(values) # Len(chunk) => ~lastCall.ok
       /\ (Len(values) = Len(chunk) /\ TakesRow(chunk, values))
            => /\ lastCall.ok
               /\ Len(after) = Len(chunk)
               /\ \A i \in 1..Len(chunk) :
                     after[i] = [chunk[i] EXCEPT !.values = Append(@, values[i].val)]

\* C15: after any sequence of add_column, append (appends that throw included)
\* and compress_chunk, the columns of every chunk are of one length.
C15_SegmentsOfEqualLength ==
  \A k \in 1..Len(tables[1].chunks) :
     \A i, j \in 1..Len(tables[1].chunks[k]) :
        Column_size(tables[1].chunks[k][i]) = Column_size(tables[1].chunks[k][j])

----------------------------------------------------------------------------
(* Compression of one value column *)

\* The value columns that get compressed: every column of up to MaxColumnValues
\* values out of 1..MaxColumnValue, and columns of distinct values, in falling
\* order, as many as one byte can count and a few less and more.
ShortColumns == UNION {[1..n -> 1..MaxColumnValue] : n \in 0..MaxColumnValues}

LongColumns ==
  {[i \in 1..n |-> n + 1 - i] : n \in (UINT8_MAX - 1)..(UINT8_MAX + 2)}

\* A table of one chunk and one int column that holds the values
TableOfColumn(values) ==
  LET t == add_column(TRUE, Table(0), Schema[1].name, Schema[1].type).table
  IN [t EXCEPT !.chunks[1] = <<[@[1] EXCEPT !.values = values]>>]

InitDictionary ==
  /\ \E values \in ShortColumns \cup LongColumns : tables = <<TableOfColumn(values)>>
  /\ history = <<BaseEntry(1)>>
  /\ lastScan = NoScan
  /\ context = NoContext
  /\ positions = <<>>
  /\ lastCall = NoCall
  /\ storage_manager = NoTables

NextDictionary == CallCompressChunk(0)

SpecDictionary == InitDictionary /\ [][NextDictionary]_vars

\* The value column the last call compressed, and the dictionary column made of it
CompressedFrom == lastCall.before.chunks[1][1]

CompressedTo == tables[1].chunks[1][1]

\* C16: the dictionary column built from a value column is of the same size and
\* reads, at every offset, the value the value column holds there.
C16_DictionaryRoundTrip ==
  lastCall.op = "compress_chunk" =>
    /\ Column_size(CompressedTo) = Len(CompressedFrom.values)
    /\ \A i \in 0..(Len(CompressedFrom.values) - 1) :
          DictionaryColumn_get(CompressedTo, i) = At(CompressedFrom.values, i)

\* A column of UINT8_MAX + 1 distinct values has been compressed: its value ids
\* need the second byte
C16_Witness ==
  /\ lastCall.op = "compress_chunk"
  /\ CompressedTo.kind = "DictionaryColumn"
  /\ Len(CompressedFrom.values) = UINT8_MAX + 1
  /\ Len(CompressedTo.dictionary) = UINT8_MAX + 1
  /\ CompressedTo.attribute_vector.width = 2

\* C17: the dictionary of a dictionary column is strictly increasing and holds
\* exactly the values that occur in the value column it was built from.
C17_DictionarySortedDistinct ==
  lastCall.op = "compress_chunk" =>
    LET dictionary == CompressedTo.dictionary
    IN /\ \A i \in 1..(Len(dictionary) - 1) : dictionary[i] < dictionary[i + 1]
       /\ Range(dictionary) = Range(CompressedFrom.values)

\* A column that holds a value twice, and its values out of order
C17_Witness ==
  /\ lastCall.op = "compress_chunk"
  /\ CompressedFrom.values = <<3, 1, 3, 2>>
  /\ CompressedTo.dictionary = <<1, 2, 3>>

\* C18: the attribute vector of a dictionary column has one entry for every
\* value of the value column, every entry is a position of the dictionary, and
\* no entry is the invalid id of the width of the vector.
C18_AttributeVectorInRange ==
  lastCall.op = "compress_chunk" =>
    LET av == CompressedTo.attribute_vector
    IN /\ AttributeVector_size(av) = Len(CompressedFrom.values)
       /\ \A i \in 0..(AttributeVector_size(av) - 1) :
             /\ ValueID_index(AttributeVector_get(av, i)) >= 0
             /\ ValueID_index(AttributeVector_get(av, i)) < Len(CompressedTo.dictionary)
             /\ AttributeVector_get(av, i) # Narrow(av.width, INVALID_VALUE_ID)

\* A column of UINT8_MAX distinct values has been compressed: the ids go up to
\* UINT8_MAX - 1 in a vector of one byte
C18_Witness ==
  /\ lastCall.op = "compress_chunk"
  /\ Len(CompressedTo.dictionary) = UINT8_MAX
  /\ CompressedTo.attribute_vector.width = 1
  /\ ValueID(UINT8_MAX - 1) \in Range(CompressedTo.attribute_vector.values)

----------------------------------------------------------------------------
(* The width of the attribute vector, by the size of the dictionary *)

\* The sizes of the dictionaries a vector is fitted to: all up to MaxUniqueCount
\* and those within MaxNear of the most that one byte and two bytes can count
UniqueCounts ==
  0..MaxUniqueCount
    \cup ((UINT8_MAX - MaxNear)..(UINT8_MAX + MaxNear))
    \cup ((UINT16_MAX - MaxNear)..(UINT16_MAX + MaxNear))

\* The dictionary of a column that holds the values 1..unique_count
DictionaryOfSize(unique_count) == [i \in 1..unique_count |-> i]

InitFitted ==
  /\ tables = <<>>
  /\ history = <<>>
  /\ lastScan = NoScan
  /\ context = NoContext
  /\ positions = <<>>
  /\ lastCall = NoCall
  /\ storage_manager = NoTables

\* _get_fitted_vector(size) in the constructor of a dictionary column whose
\* dictionary has unique_count entries, for a column of that many values; the
\* call, the one call of a constructor, is on record with the width and the
\* size of the vector it returned.
GetFittedVector(unique_count) ==
  LET vector == get_fitted_vector(DictionaryOfSize(unique_count), unique_count)
  IN /\ lastCall = NoCall
     /\ lastCall' = [op |-> "get_fitted_vector", unique_count |-> unique_count,
                     width |-> vector.width, size |-> AttributeVector_size(vector)]
     /\ UNCHANGED <<tables, history, lastScan, context, positions, storage_manager>>

NextFitted == \E unique_count \in UniqueCounts : GetFittedVector(unique_count)

SpecFitted == InitFitted /\ [][NextFitted]_vars

\* A vector of the width has a value for every position of a dictionary of
\* unique_count entries: unique_count < 2^(8 * width).  Four bytes count every
\* dictionary of the model.
Counts(width, unique_count) == width = 4 \/ unique_count < 2 ^ (8 * width)

\* C19: the width of the attribute vector is the least of 1, 2 and 4 bytes that
\* counts the entries of the dictionary; 255 entries get 1 byte, 256 and 65535
\* entries 2 bytes, 65536 entries 4 bytes.
C19_LeastWidthThatCounts ==
  lastCall.op = "get_fitted_vector" =>
    /\ lastCall.width \in Widths
    /\ Counts(lastCall.width, lastCall.unique_count)
    /\ \A w \in Widths : Counts(w, lastCall.unique_count) => lastCall.width <= w
    /\ lastCall.unique_count = 255 => lastCall.width = 1
    /\ lastCall.unique_count = 256 => lastCall.width = 2
    /\ lastCall.unique_count = 65535 => lastCall.width = 2
    /\ lastCall.unique_count = 65536 => lastCall.width = 4

\* A dictionary of 65536 entries got a vector of four bytes
C19_Witness ==
  /\ lastCall.op = "get_fitted_vector"
  /\ lastCall.unique_count = UINT16_MAX + 1
  /\ lastCall.width = 4
  /\ lastCall.size = UINT16_MAX + 1

\* C20, as stated: the width is 1 exactly when the dictionary has less than 255
\* entries, 2 when it has 255 or more and less than 65535, and 4 otherwise; 200
\* entries get 1 byte and 300 entries 2 bytes.
C20_WidthBelowAllOnes ==
  lastCall.op = "get_fitted_vector" =>
    /\ lastCall.width = (IF lastCall.unique_count < 255 THEN 1
                         ELSE IF lastCall.unique_count < 65535 THEN 2 ELSE 4)
    /\ lastCall.unique_count = 200 => lastCall.width = 1
    /\ lastCall.unique_count = 300 => lastCall.width = 2

\* C20: the width is 1 exactly when the dictionary has at most 255 entries, 2
\* when it has more and at most 65535, and 4 otherwise; 200 entries get 1 byte
\* and 300 entries 2 bytes.
C20_WidthUpToAllOnes ==
  lastCall.op = "get_fitted_vector" =>
    /\ lastCall.width = (IF lastCall.unique_count <= 255 THEN 1
                         ELSE IF lastCall.unique_count <= 65535 THEN 2 ELSE 4)
    /\ lastCall.unique_count = 200 => lastCall.width = 1
    /\ lastCall.unique_count = 300 => lastCall.width = 2

\* A dictionary of 255 entries got a vector of one byte
C20_Witness ==
  /\ lastCall.op = "get_fitted_vector"
  /\ lastCall.unique_count = UINT8_MAX
  /\ lastCall.width = 1

----------------------------------------------------------------------------
(* Properties of compressed chunks *)

\* The chunk has columns and all of them are dictionary columns
IsCompressed(chunk) ==
  Len(chunk) >= 1 /\ \A c \in 1..Len(chunk) : chunk[c].kind = "DictionaryColumn"

\* C21: an append changes no compressed chunk; an append that goes to a
\* compressed last chunk (one below chunk_size, or with chunk_size 0) fails, and
\* an append of a row behind a compressed last chunk that is full goes to a new
\* chunk and returns.
C21_CompressedChunkRejectsAppend ==
  lastCall.op = "append" =>
    LET before == lastCall.before
        after == tables[1]
    IN /\ \A k \in 1..Len(before.chunks) :
             IsCompressed(before.chunks[k]) => after.chunks[k] = before.chunks[k]
       /\ IsCompressed(AppendedChunk) => ~lastCall.ok
       /\ (/\ IsCompressed(Last(before.chunks))
           /\ ~IsCompressed(AppendedChunk)
           /\ Len(lastCall.values) = Len(AppendedChunk)
           /\ TakesRow(AppendedChunk, lastCall.values))
          => /\ lastCall.ok
             /\ Len(after.chunks) = Len(before.chunks) + 1
             /\ Chunk_size(Last(after.chunks)) = 1

----------------------------------------------------------------------------
(* The bounds of a dictionary column, asked for values in and around it *)

MaxBoundValue == 2

MaxBoundEntries == 3

\* The value columns that are compressed: values 0..MaxBoundValue in any order
BoundColumns == UNION {[1..n -> 0..MaxBoundValue] : n \in 0..MaxBoundEntries}

\* The values asked for: below, in and above the values of the columns
BoundValues == (0 - 1)..(MaxBoundValue + 1)

BoundVariants == {Variant("int", v) : v \in BoundValues} \cup {Variant("string", NoNumber)}

InitBounds ==
  /\ \E values \in BoundColumns : tables = <<compress_chunk(TableOfColumn(values), 0)>>
  /\ history = <<BaseEntry(1)>>
  /\ lastScan = NoScan
  /\ context = NoContext
  /\ positions = <<>>
  /\ lastCall = NoCall
  /\ storage_manager = NoTables

\* The dictionary column of the table
BoundColumn == tables[1].chunks[1][1]

CallLowerBound(value) ==
  /\ lastCall' = [op |-> "lower_bound", variant |-> FALSE, value |-> value, ok |-> TRUE,
                  value_id |-> lower_bound(BoundColumn, value)]
  /\ UNCHANGED <<tables, lastScan, history, context, positions, storage_manager>>

CallUpperBound(value) ==
  /\ lastCall' = [op |-> "upper_bound", variant |-> FALSE, value |-> value, ok |-> TRUE,
                  value_id |-> upper_bound(BoundColumn, value)]
  /\ UNCHANGED <<tables, lastScan, history, context, positions, storage_manager>>

CallLowerBoundOfVariant(IS_DEBUG, value) ==
  LET r == lower_bound_of_variant(IS_DEBUG, BoundColumn, value)
  IN /\ lastCall' = [op |-> "lower_bound", variant |-> TRUE, IS_DEBUG |-> IS_DEBUG,
                     value |-> value, ok |-> r.ok, value_id |-> r.value_id]
     /\ UNCHANGED <<tables, lastScan, history, context, positions, storage_manager>>

CallUpperBoundOfVariant(IS_DEBUG, value) ==
  LET r == upper_bound_of_variant(IS_DEBUG, BoundColumn, value)
  IN /\ lastCall' = [op |-> "upper_bound", variant |-> TRUE, IS_DEBUG |-> IS_DEBUG,
                     value |-> value, ok |-> r.ok, value_id |-> r.value_id]
     /\ UNCHANGED <<tables, lastScan, history, context, positions, storage_manager>>

LowerBoundSome == \E value \in BoundValues : CallLowerBound(value)

UpperBoundSome == \E value \in BoundValues : CallUpperBound(value)

LowerBoundOfSomeVariant ==
  \E IS_DEBUG \in BOOLEAN, value \in BoundVariants : CallLowerBoundOfVariant(IS_DEBUG, value)

UpperBoundOfSomeVariant ==
  \E IS_DEBUG \in BOOLEAN, value \in BoundVariants : CallUpperBoundOfVariant(IS_DEBUG, value)

NextBounds ==
  \/ LowerBoundSome
  \/ UpperBoundSome
  \/ LowerBoundOfSomeVariant
  \/ UpperBoundOfSomeVariant

SpecBounds == InitBounds /\ [][NextBounds]_vars

\* The value the last call asked for, as a value of the column's type
AskedValue == IF lastCall.variant THEN lastCall.value.val ELSE lastCall.value

\* The indices of the dictionary whose entry is >= the value (> if strict)
IndicesFrom(dictionary, value, strict) ==
  {i \in 0..(Len(dictionary) - 1) :
     IF strict THEN At(dictionary, i) > value ELSE At(dictionary, i) >= value}

\* The least of the indices as a ValueID, INVALID_VALUE_ID if there is none
LeastIndex(indices) ==
  IF indices = {} THEN INVALID_VALUE_ID
  ELSE ValueID(CHOOSE i \in indices : \A j \in indices : i <= j)

\* The last call answered the least index that lower_bound or upper_bound is to find
AnswersLeastIndex ==
  /\ lastCall.ok
  /\ lastCall.value_id =
       LeastIndex(IndicesFrom(BoundColumn.dictionary, AskedValue, lastCall.op = "upper_bound"))

\* C22: lower_bound(v) returns the least dictionary index whose entry is >= v,
\* upper_bound(v) the least index whose entry is > v, and each returns
\* INVALID_VALUE_ID when there is no such entry (also for the empty
\* dictionary); for every value of the column's type, by either overload.
C22_BoundsAreLeastIndices ==
  (/\ lastCall.op \in {"lower_bound", "upper_bound"}
   /\ lastCall.variant => can_type_cast(BoundColumn.type, lastCall.value))
  => AnswersLeastIndex

----------------------------------------------------------------------------
(* The storage manager, called with names that are and are not registered *)

MaxNames == 3

MaxHandles == 2

\* The names tables are registered under
TableNames == {<<"table", i>> : i \in 1..MaxNames}

\* The tables handed to add_table
TableHandles == 1..MaxHandles

InitStorage ==
  /\ tables = <<>>
  /\ history = <<>>
  /\ lastScan = NoScan
  /\ context = NoContext
  /\ positions = <<>>
  /\ lastCall = NoCall
  /\ storage_manager = NoTables

CallAddTable(name, table) ==
  LET r == add_table(storage_manager, name, table)
  IN /\ storage_manager' = r.manager
     /\ lastCall' = [op |-> "add_table", name |-> name, table |-> table,
                     before |-> storage_manager, ok |-> r.ok]
     /\ UNCHANGED <<tables, lastScan, history, context, positions>>

CallDropTable(name) ==
  LET r == drop_table(storage_manager, name)
  IN /\ storage_manager' = r.manager
     /\ lastCall' = [op |-> "drop_table", name |-> name, table |-> 0,
                     before |-> storage_manager, ok |-> r.ok]
     /\ UNCHANGED <<tables, lastScan, history, context, positions>>

CallGetTable(name) ==
  LET r == get_table(storage_manager, name)
  IN /\ lastCall' = [op |-> "get_table", name |-> name, table |-> r.table,
                     before |-> storage_manager, ok |-> r.ok]
     /\ UNCHANGED <<storage_manager, tables, lastScan, history, context, positions>>

CallReset ==
  /\ storage_manager' = reset(storage_manager)
  /\ lastCall' = [op |-> "reset", name |-> <<>>, table |-> 0,
                  before |-> storage_manager, ok |-> TRUE]
  /\ UNCHANGED <<tables, lastScan, history, context, positions>>

AddSomeTable == \E name \in TableNames, table \in TableHandles : CallAddTable(name, table)

DropSomeTable == \E name \in TableNames : CallDropTable(name)

GetSomeTable == \E name \in TableNames : CallGetTable(name)

NextStorage ==
  \/ AddSomeTable
  \/ DropSomeTable
  \/ GetSomeTable
  \/ CallReset

SpecStorage == InitStorage /\ [][NextStorage]_vars

\* C23: add_table with a name that is registered fails and leaves the registry
\* as it was (the name still maps to the first table); add_table with a new
\* name returns and get_table of the name then returns the table supplied.
C23_AddTableOncePerName ==
  lastCall.op = "add_table" =>
    IF has_table(lastCall.before, lastCall.name)
    THEN /\ ~lastCall.ok
         /\ storage_manager = lastCall.before
         /\ get_table(storage_manager, lastCall.name).table = lastCall.before[lastCall.name]
    ELSE /\ lastCall.ok
         /\ get_table(storage_manager, lastCall.name) = [ok |-> TRUE, table |-> lastCall.table]

\* add_table was called with a registered name and another table, and before
\* that with a new name
C23_Witness ==
  /\ lastCall.op = "add_table"
  /\ has_table(lastCall.before, lastCall.name)
  /\ lastCall.before[lastCall.name] # lastCall.table
  /\ ~lastCall.ok

\* The names has_table is to hold for after the last call
NamesAfterCall ==
  CASE lastCall.op = "add_table" /\ lastCall.ok -> DOMAIN lastCall.before \cup {lastCall.name}
    [] lastCall.op = "drop_table" /\ lastCall.ok -> DOMAIN lastCall.before \ {lastCall.name}
    [] lastCall.op = "reset" -> {}
    [] OTHER -> DOMAIN lastCall.before

\* C24: after every call has_table(n) holds exactly for the names added and
\* neither dropped nor cleared since: a call changes it only for the name added
\* or dropped, reset clears it; drop_table and get_table of a name that is not
\* registered fail and leave the registry as it was, and succeed otherwise.
C24_RegistryFollowsCalls ==
  lastCall.op \in {"add_table", "drop_table", "get_table", "reset"} =>
    /\ \A n \in TableNames : has_table(storage_manager, n) <=> n \in NamesAfterCall
    /\ \A n \in NamesAfterCall \ {lastCall.name} : storage_manager[n] = lastCall.before[n]
    /\ lastCall.op \in {"drop_table", "get_table"} =>
         /\ lastCall.ok <=> has_table(lastCall.before, lastCall.name)
         /\ ~lastCall.ok => storage_manager = lastCall.before

\* drop_table was called with a name that is not registered while another is
C24_Witness ==
  /\ lastCall.op = "drop_table"
  /\ ~has_table(lastCall.before, lastCall.name)
  /\ DOMAIN lastCall.before # {}
  /\ ~lastCall.ok

----------------------------------------------------------------------------
(* The schema of a table, extended with names of any kind *)

MaxSchemaColumns == 3

\* The names columns are added and looked up with
SchemaNames == {"a", "b", "c"}

InitSchema == InitTable

CallAddColumnDefinition(name, type) ==
  /\ tables' = [tables EXCEPT ![1] = add_column_definition(@, name, type)]
  /\ lastCall' = [op |-> "add_column_definition", name |-> name, type |-> type,
                  before |-> tables[1], ok |-> TRUE]
  /\ UNCHANGED <<lastScan, history, context, positions, storage_manager>>

CallColumnIdByName(name) ==
  LET r == column_id_by_name(tables[1], name)
  IN /\ lastCall' = [op |-> "column_id_by_name", name |-> name, before |-> tables[1],
                     ok |-> r.ok, column_id |-> r.column_id]
     /\ UNCHANGED <<tables, lastScan, history, context, positions, storage_manager>>

AddNamedColumn ==
  /\ Len(tables[1].column_names) < MaxSchemaColumns
  /\ \E IS_DEBUG \in BOOLEAN, name \in SchemaNames, type \in ColumnTypes :
       CallAddColumn(IS_DEBUG, name, type)

AddNamedColumnDefinition ==
  /\ Len(tables[1].column_names) < MaxSchemaColumns
  /\ \E name \in SchemaNames, type \in ColumnTypes : CallAddColumnDefinition(name, type)

LookUpSomeName == \E name \in SchemaNames : CallColumnIdByName(name)

NextSchema ==
  \/ AddNamedColumn
  \/ AddNamedColumnDefinition
  \/ LookUpSomeName

SpecSchema == InitSchema /\ [][NextSchema]_vars

\* The columns of the table that carry the name
ColumnsNamed(t, name) == {i \in 0..(Len(t.column_names) - 1) : At(t.column_names, i) = name}

\* column_id_by_name fails exactly for the names that no column carries, and
\* answers a column of the name otherwise
LookUpFindsName ==
  lastCall.op = "column_id_by_name" =>
    /\ lastCall.ok <=> ColumnsNamed(tables[1], lastCall.name) # {}
    /\ lastCall.ok => lastCall.column_id \in ColumnsNamed(tables[1], lastCall.name)

\* C25: after every sequence of add_column and add_column_definition the column
\* names are pairwise distinct, so that at most one column carries a name, and
\* column_id_by_name of a name that no column carries fails.
C25_ColumnNamesDistinct ==
  /\ \A name \in SchemaNames : Cardinality(ColumnsNamed(tables[1], name)) <= 1
  /\ LookUpFindsName

----------------------------------------------------------------------------
(* The attribute vector, read and written at positions inside and outside *)

MaxVectorSize == 2

\* The value ids handed to set: small ones and those around the widths
SetIds ==
  {ValueID(0), ValueID(1), ValueID(UINT8_MAX), ValueID(UINT8_MAX + 1), ValueID(UINT8_MAX + 2),
   ValueID(UINT16_MAX), ValueID(UINT16_MAX + 1), ValueID(UINT16_MAX + 2), INVALID_VALUE_ID}

\* The positions handed to get and set: those of the vector and one behind
VectorPositions == 0..MaxVectorSize

InitVector ==
  /\ tables = <<>>
  /\ history = <<>>
  /\ lastScan = NoScan
  /\ positions = <<>>
  /\ storage_manager = NoTables
  /\ \E width \in Widths, size \in 0..MaxVectorSize :
       /\ context = [NoContext EXCEPT !.attribute_vector = FittedAttributeVector(width, size)]
       /\ lastCall = [op |-> "FittedAttributeVector", width |-> width, size |-> size, ok |-> TRUE]

CallSet(i, value_id) ==
  LET av == context.attribute_vector
      ok == vector_at(av.values, i)
  IN /\ context' = IF ok THEN [context EXCEPT !.attribute_vector = AttributeVector_set(av, i, value_id)]
                   ELSE context
     /\ lastCall' = [op |-> "set", i |-> i, value_id |-> value_id, before |-> av, ok |-> ok]
     /\ UNCHANGED <<tables, lastScan, history, positions, storage_manager>>

CallGet(i) ==
  LET av == context.attribute_vector
      ok == vector_at(av.values, i)
  IN /\ lastCall' = [op |-> "get", i |-> i, before |-> av, ok |-> ok,
                     value_id |-> IF ok THEN AttributeVector_get(av, i) ELSE INVALID_VALUE_ID]
     /\ UNCHANGED <<context, tables, lastScan, history, positions, storage_manager>>

SetSomewhere == \E i \in VectorPositions, value_id \in SetIds : CallSet(i, value_id)

GetSomewhere == \E i \in VectorPositions : CallGet(i)

NextVector == SetSomewhere \/ GetSomewhere

SpecVector == InitVector /\ [][NextVector]_vars

\* value_id mod 2^(8 * width): the low 8 * width bits of the 32 that a ValueID has
ModWidth(value_id, width) ==
  IF width = 4 THEN value_id ELSE [hi |-> 0, lo |-> value_id.lo % (2 ^ (8 * width))]

\* C26: a vector constructed with a width and a size has that size and width
\* and zero in every entry; a set at a position of the vector stores the id
\* modulo 2^(8 * width), which get then returns, and changes no other entry,
\* nor the size or the width; get and set at a position behind the vector fail
\* and change nothing.
C26_AttributeVectorSetGet ==
  LET av == context.attribute_vector
  IN /\ lastCall.op = "FittedAttributeVector" =>
          /\ AttributeVector_size(av) = lastCall.size
          /\ AttributeVector_width(av) = lastCall.width
          /\ \A i \in 0..(lastCall.size - 1) : AttributeVector_get(av, i) = ValueID(0)
     /\ lastCall.op = "set" =>
          IF lastCall.i < AttributeVector_size(lastCall.before)
          THEN /\ lastCall.ok
               /\ AttributeVector_get(av, lastCall.i) =
                    ModWidth(lastCall.value_id, AttributeVector_width(lastCall.before))
               /\ AttributeVector_size(av) = AttributeVector_size(lastCall.before)
               /\ AttributeVector_width(av) = AttributeVector_width(lastCall.before)
               /\ \A j \in 0..(AttributeVector_size(av) - 1) :
                     j # lastCall.i =>
                       AttributeVector_get(av, j) = AttributeVector_get(lastCall.before, j)
          ELSE ~lastCall.ok /\ av = lastCall.before
     /\ lastCall.op = "get" =>
          /\ av = lastCall.before
          /\ IF lastCall.i < AttributeVector_size(av)
             THEN lastCall.ok /\ lastCall.value_id = At(av.values, lastCall.i)
             ELSE ~lastCall.ok

\* An id that does not fit the width was set at one position of a vector that
\* holds another id at another position
C26_Witness ==
  /\ lastCall.op = "set"
  /\ lastCall.ok
  /\ AttributeVector_width(lastCall.before) = 1
  /\ lastCall.value_id = ValueID(UINT8_MAX + 2)
  /\ \E j \in 0..(AttributeVector_size(lastCall.before) - 1) :
        j # lastCall.i /\ AttributeVector_get(lastCall.before, j) # ValueID(0)

\* get and set were called at the position behind the last
C26_CallBehindVector ==
  /\ lastCall.op \in {"get", "set"}
  /\ lastCall.i = AttributeVector_size(lastCall.before)
  /\ ~lastCall.ok

----------------------------------------------------------------------------
(* Properties of calls that fail *)

\* The sizes of the columns of the table, chunk by chunk
SegmentSizes(t) ==
  [k \in 1..Len(t.chunks) |-> [i \in 1..Len(t.chunks[k]) |-> Column_size(t.chunks[k][i])]]

\* C27: an append that fails (a row of the wrong length, a value that cannot be
\* cast) leaves the table as it was: the number of chunks, row_count() and the
\* size of every column of every chunk, also when the last chunk was full.
C27_FailedAppendChangesNothing ==
  (lastCall.op = "append" /\ ~lastCall.ok) =>
    /\ chunk_count(tables[1]) = chunk_count(lastCall.before)
    /\ row_count(tables[1]) = row_count(lastCall.before)
    /\ SegmentSizes(tables[1]) = SegmentSizes(lastCall.before)

----------------------------------------------------------------------------
(* Compression of chunks of any kind, compressed ones included *)

\* What the read through a null pointer may do in a release build
UndefinedReads == {<<"crashes">>, <<"values", <<1>>>>}

InitCompress == InitTable

CallCompressAnyChunk(IS_DEBUG, chunk_id, undefined) ==
  LET r == compress_any_chunk(IS_DEBUG, tables[1], chunk_id, undefined)
  IN /\ InRange(tables[1].chunks, chunk_id)
     /\ tables' = [tables EXCEPT ![1] = r.table]
     /\ lastCall' = [op |-> "compress_chunk", IS_DEBUG |-> IS_DEBUG, chunk_id |-> chunk_id,
                     before |-> tables[1], ok |-> r.outcome = "returns", outcome |-> r.outcome]
     /\ UNCHANGED <<lastScan, history, context, positions, storage_manager>>

CompressAnyChunk ==
  \E IS_DEBUG \in BOOLEAN, chunk_id \in 0..(MaxTableRows - 1), undefined \in UndefinedReads :
     CallCompressAnyChunk(IS_DEBUG, chunk_id, undefined)

\* An append while the table has chunks that compress_chunk is called for
AppendToFewChunks == chunk_count(tables[1]) < MaxTableRows /\ AppendAny

NextCompress == AddAnyColumn \/ AppendToFewChunks \/ CompressAnyChunk

SpecCompress == InitCompress /\ [][NextCompress]_vars

\* The chunk has value columns only
IsUncompressed(chunk) == \A c \in 1..Len(chunk) : chunk[c].kind = "ValueColumn"

\* compress_chunk of a chunk of value columns returns and changes the encoding
\* of that chunk only
CompressKeepsFrame ==
  (lastCall.op = "compress_chunk" /\ IsUncompressed(At(lastCall.before.chunks, lastCall.chunk_id))) =>
    LET before == lastCall.before
        after == tables[1]
        k == lastCall.chunk_id + 1
    IN /\ lastCall.outcome = "returns"
       /\ after.column_names = before.column_names
       /\ after.column_types = before.column_types
       /\ after.max_chunk_size = before.max_chunk_size
       /\ chunk_count(after) = chunk_count(before)
       /\ row_count(after) = row_count(before)
       /\ Chunk_col_count(after.chunks[k]) = Chunk_col_count(before.chunks[k])
       /\ Chunk_size(after.chunks[k]) = Chunk_size(before.chunks[k])
       /\ \A c \in 1..Len(after.chunks[k]) :
             /\ after.chunks[k][c].kind = "DictionaryColumn"
             /\ Column_size(after.chunks[k][c]) = Column_size(before.chunks[k][c])
       /\ \A j \in 1..Len(before.chunks) : j # k => after.chunks[j] = before.chunks[j]

\* C28: compress_chunk(k) changes only the encoding of chunk k (the schema, the
\* chunk count, row_count, the number of columns and the size of chunk k and
\* every other chunk stay), and compress_chunk of a chunk that is compressed
\* fails with an error and leaves the table as it was.
C28_CompressChangesEncodingOnly ==
  /\ CompressKeepsFrame
  /\ (lastCall.op = "compress_chunk" /\ IsCompressed(At(lastCall.before.chunks, lastCall.chunk_id)))
     => (lastCall.outcome = "throws" /\ tables[1] = lastCall.before)

----------------------------------------------------------------------------
(* Scans of a reference segment over position lists of any order *)

MaxBaseRows == 3

MaxPositions == 3

\* The position lists over the rows of a table, in any order, with repetitions
PositionLists(t) ==
  UNION {[1..n -> Range(AllRowIDs(t))] : n \in 0..MaxPositions}

\* A table of one chunk that holds one reference segment on table 1
ReferenceTable(t, rows) ==
  emplace_chunk(add_column_definition(Table(0), t.column_names[1], t.column_types[1]),
                <<ReferenceColumn(1, 0, PosList(2, rows))>>)

InitPositions == Init

AddBaseColumn ==
  /\ tables[1].column_names = <<>>
  /\ AddColumn(1, Schema[1].name, Schema[1].type)

AppendBaseRow ==
  /\ Len(tables) = 1
  /\ row_count(tables[1]) < MaxBaseRows
  /\ \E values \in Rows(tables[1]) : AppendRow(1, values)

CompressBaseChunk ==
  /\ Len(tables) = 1
  /\ \E chunk_id \in 0..(MaxBaseRows - 1) : CompressChunk(1, chunk_id)

\* std::make_shared<ReferenceColumn>(table, 0, pos) with a position list of the
\* caller, put into a table of its own
WrapPositions(rows) ==
  /\ Len(tables) = 1
  /\ Len(tables[1].column_names) = 1
  /\ tables' = Append(tables, ReferenceTable(tables[1], rows))
  /\ history' = Append(history, ComposedEntry)
  /\ UNCHANGED <<lastScan, context, positions, lastCall, storage_manager>>

WrapSomePositions == \E rows \in PositionLists(tables[1]) : WrapPositions(rows)

ScanReferenceTable ==
  /\ Len(tables) = 2
  /\ \E scan_type \in ScanTypes, val \in SearchValues, stale \in StaleValues :
     Scan(2, 0, scan_type, Variant(Schema[1].type, val), stale)

NextPositions ==
  \/ AddBaseColumn
  \/ AppendBaseRow
  \/ CompressBaseChunk
  \/ WrapSomePositions
  \/ ScanReferenceTable

SpecPositions == InitPositions /\ [][NextPositions]_vars

\* The position list the scan was given
InputPositions == PosListOf(2).rows

\* The chunk ids of the position list do not fall
ChunksAscend(rows) ==
  \A i, j \in 1..Len(rows) : i < j => rows[i].chunk_id <= rows[j].chunk_id

\* The scan returned the entries of its input, in their order, whose value
\* satisfies the predicate
ScanSelectsPositions ==
  /\ lastScan.status = "ok"
  /\ PosListOf(lastScan.out).rows =
       Selected(tables[1], InputPositions, 0, lastScan.scan_type, lastScan.search_value.val)

\* C29: the scan of a reference segment returns exactly the entries of the
\* input position list whose referenced value satisfies the predicate, the row
\* ids as they are and in the order of the input, for every input position
\* list: also one whose chunk ids do not ascend and one whose last entry lies
\* in the last chunk of the referenced table.
C29_ReferenceScanSelectsSubsequence ==
  lastScan # NoScan => ScanSelectsPositions

\* For the position lists whose chunk ids do not fall the scan returns the
\* entries that satisfy the predicate
ReferenceScanOfAscendingChunks ==
  (lastScan # NoScan /\ ChunksAscend(InputPositions)) => ScanSelectsPositions

----------------------------------------------------------------------------
(* Scans of tables built by calls of any kind, and reads of what they return *)

\* The rows handed to append: of any length, with values that cast and one that
\* does not
AnyScanRows ==
  UNION {[1..n -> {Variant("int", 1), Variant("string", NoNumber)}] :
           n \in 0..(Len(Schema) + 1)}

InitReads == Init

\* table.append(values) for a row of any kind; the driver goes on after an
\* append that threw
AppendAnyRow ==
  /\ row_count(tables[1]) < MaxRows
  /\ \E values \in AnyScanRows : AppendRow(1, values)

\* TableScan(in, column_id, scan_type, search_value).execute(), with no record
\* of the rows expected in the result
ScanAnyTable(in, column_id, scan_type, variant, stale) ==
  LET out == Len(tables) + 1
      r == on_execute(tables, in, column_id, scan_type, variant, stale, out)
  IN /\ Idle
     /\ lastScan' = [in |-> in, column_id |-> column_id, scan_type |-> scan_type,
                     search_value |-> variant, status |-> r.status,
                     out |-> IF r.status = "ok" THEN out ELSE 0]
     /\ IF r.status = "ok"
        THEN /\ tables' = Append(tables, r.value)
             /\ history' = Append(history, [in |-> in, base |-> history[in].base,
                                            expected |-> <<>>])
        ELSE UNCHANGED <<tables, history>>
     /\ UNCHANGED <<context, positions, lastCall, storage_manager>>

ScanAnyChain ==
  /\ ResultCount < MaxScans
  /\ \E column_id \in ColumnIDs, scan_type \in ScanTypes, val \in SearchValues :
       \E stale \in IF HasReference(Last(tables)) THEN StaleValues ELSE {0} :
          ScanAnyTable(Len(tables), column_id, scan_type,
                       Variant(TypeOfColumn(Last(tables), column_id), val), stale)

NextReads == AddNextColumn \/ AppendAnyRow \/ CompressSome \/ ScanAnyChain \/ Release

SpecReads == InitReads /\ [][NextReads]_vars

\* The table the reference segments of a result refer to
ReferencedBy(id) == tables[Last(tables[id].chunks)[1].referenced_table]

\* Every row id of the result names a chunk of the referenced table and an
\* offset inside that chunk
RowIDsInRange(id) ==
  \A i \in 1..Len(PosListOf(id).rows) :
     LET row_id == PosListOf(id).rows[i]
     IN /\ row_id.chunk_id < chunk_count(ReferencedBy(id))
        /\ row_id.chunk_offset < Chunk_size(At(ReferencedBy(id).chunks, row_id.chunk_id))

\* operator[] of every reference segment of the result returns, at every
\* position, the value the referenced table holds in that column of the row
ReadsReturnBaseValues(id) ==
  \A c \in 1..Len(Last(tables[id].chunks)) : \A i \in 1..Len(PosListOf(id).rows) :
     LET read == Column_at(tables, Last(tables[id].chunks)[c], i - 1)
         row_id == PosListOf(id).rows[i]
         column == At(At(ReferencedBy(id).chunks, row_id.chunk_id), c - 1)
     IN /\ read.status = "ok"
        /\ read.value = Column_at(tables, column, row_id.chunk_offset).value

\* C30: every row id a scan returned lies inside the referenced table, the read
\* of every reference segment of the result at every position returns the value
\* of the base row, and a scan leaves the tables it found (its input and the
\* position list in it) as they were.
C30_ScanOutputReadable ==
  /\ [](\A id \in ResultIds : RowIDsInRange(id) /\ ReadsReturnBaseValues(id))
  /\ [][(lastScan = NoScan /\ lastScan' # NoScan)
          => \A id \in 1..Len(tables) : tables'[id] = tables[id]]_vars

\* The row ids are in range and a scan leaves the tables it found
ScanOutputInRange ==
  /\ [](\A id \in ResultIds : RowIDsInRange(id))
  /\ [][(lastScan = NoScan /\ lastScan' # NoScan)
          => \A id \in 1..Len(tables) : tables'[id] = tables[id]]_vars

====
